---- MODULE Spec2Model ----
(***************************************************************************)
(* EchoGarden: the conversation intelligence layer.                        *)
(*                                                                         *)
(*   api/main.py                  build_context_pack, get_thread,          *)
(*                                ingest_chatgpt_export                    *)
(*   api/services/topics.py       extract_topics                           *)
(*   api/services/normalization.py  normalize_message, redact_text         *)
(*   ingest/import_chatgpt_export.py  normalize_message, redact_text,      *)
(*                                import_chatgpt_export                    *)
(*   api/services/search.py       build_highlights                         *)
(*   mcp_server.py                call_tool and the four tools             *)
(*   worker/tasks.py              embed_message                            *)
(*                                                                         *)
(* Every endpoint is a separate specification over the same variables:     *)
(* the two database tables and one record per handler holding the          *)
(* handler's request, locals and response.                                 *)
(*                                                                         *)
(* Text is a sequence of one-character strings.  A timestamp is a pair     *)
(* <<minute, rest>>: `minute' stands for the first 16 characters of its    *)
(* text form (YYYY-MM-DD HH:MM) and `rest' for the characters after them;  *)
(* timestamps compare as their text does, minute first.                    *)
(***************************************************************************)
EXTENDS Integers, Sequences, FiniteSets, Bags, TLC

VARIABLES
    messages,       \* the messages table: a set of rows
    conversations,  \* the conversations table: a set of rows
    pack,           \* build_context_pack: request, locals, response
    thread,         \* get_thread: request, locals, response
    norm,           \* normalize_message: arguments and result
    ingest,         \* ingest_chatgpt_export / import_chatgpt_export: path and response
    topics,         \* extract_topics: arguments and result
    mcp,            \* the MCP server's call_tool: arguments, API exchange, result
    highlighter,    \* build_highlights: arguments and result
    embeddings,     \* the message_embeddings table: a bag of rows
    workers         \* embed_message: the position and locals of each execution

vars == <<messages, conversations, pack, thread, norm, ingest, topics,
          mcp, highlighter, embeddings, workers>>

(***************************************************************************)
(* Values shared by the handlers.                                          *)
(***************************************************************************)

\* a handler that is not running
McpIdle == [status |-> "idle"]
HighlightsIdle == [status |-> "idle"]

\* SQL NULL / Python None in a string-valued column
NULL == "NULL"

ConvIds == {"c1", "c2"}
MsgIds == {"m1", "m2"}

RECURSIVE SumSeq(_)
SumSeq(s) == IF s = <<>> THEN 0 ELSE Head(s) + SumSeq(Tail(s))

\* the sequences that list every element of the finite set S exactly once
Orderings(S) ==
    {f \in [1..Cardinality(S) -> S] : \A i, j \in 1..Cardinality(S) : f[i] = f[j] => i = j}

\* comparison of two timestamps as PostgreSQL (timestamptz) and Python (text) order them
TsLess(a, b) == a[1] < b[1] \/ (a[1] = b[1] /\ a[2] < b[2])
TsLeq(a, b) == a = b \/ TsLess(a, b)

\* PRIMARY KEY (conv_id, msg_id)
PrimaryKeyHolds(rows) ==
    \A r1, r2 \in rows : (r1.conv_id = r2.conv_id /\ r1.msg_id = r2.msg_id) => r1 = r2

(***************************************************************************)
(* Text: characters, str.lower, str.strip and re.sub                       *)
(*                                                                         *)
(* A character is a one-character string; the guillemets U+00AB and U+00BB *)
(* of the redaction sentinels are written "LAQUO" and "RAQUO".             *)
(***************************************************************************)

Whitespace == {" ", "\n", "\t"}
Digits == {"0", "1", "2", "3", "4", "5", "6", "7", "8", "9"}
UpperCase == <<"A", "B", "C", "D", "E", "F", "G", "H", "I", "J", "K", "L", "M",
               "N", "O", "P", "Q", "R", "S", "T", "U", "V", "W", "X", "Y", "Z">>
LowerCase == <<"a", "b", "c", "d", "e", "f", "g", "h", "i", "j", "k", "l", "m",
               "n", "o", "p", "q", "r", "s", "t", "u", "v", "w", "x", "y", "z">>
UpperLetters == {UpperCase[i] : i \in DOMAIN UpperCase}
LowerLetters == {LowerCase[i] : i \in DOMAIN LowerCase}

\* \s, \d and \w of Python's re on str
IsSpace(c) == c \in Whitespace
IsDigit(c) == c \in Digits
IsWordChar(c) == c \in UpperLetters \cup LowerLetters \cup Digits \cup {"_"}

\* str.lower(), one character
LowerChar(c) ==
    IF c \in UpperLetters
    THEN LowerCase[CHOOSE i \in DOMAIN UpperCase : UpperCase[i] = c]
    ELSE c

\* str.lower()
StrLower(s) == [i \in 1..Len(s) |-> LowerChar(s[i])]

\* str.strip()
RECURSIVE LStrip(_)
LStrip(s) == IF s # <<>> /\ IsSpace(Head(s)) THEN LStrip(Tail(s)) ELSE s

RECURSIVE RStrip(_)
RStrip(s) ==
    IF s # <<>> /\ IsSpace(s[Len(s)]) THEN RStrip(SubSeq(s, 1, Len(s) - 1)) ELSE s

StrStrip(s) == RStrip(LStrip(s))

\* \b before position k (1..Len+1): exactly one of the characters around it is a word character
WordAt(text, k) == k >= 1 /\ k <= Len(text) /\ IsWordChar(text[k])
Boundary(text, k) == WordAt(text, k - 1) # WordAt(text, k)

\* \d{count} at position i
DigitsAt(text, i, count) ==
    i + count - 1 <= Len(text) /\ \A k \in i..(i + count - 1) : IsDigit(text[k])

\* the length of the run of digits at position i
RECURSIVE DigitRun(_, _)
DigitRun(text, i) ==
    IF i <= Len(text) /\ IsDigit(text[i]) THEN 1 + DigitRun(text, i + 1) ELSE 0

\* the last position of the run of non-whitespace characters that holds position i
RECURSIVE NonSpaceEnd(_, _)
NonSpaceEnd(text, i) ==
    IF i + 1 <= Len(text) /\ ~IsSpace(text[i + 1]) THEN NonSpaceEnd(text, i + 1) ELSE i

\* r"\S+@\S+" matched at position i: the length of the match, 0 for none.  Both
\* \S+ are greedy: the match runs to the end of the run of non-whitespace and
\* needs an "@" after its first and before its last character.
EmailMatch(text, i) ==
    IF IsSpace(text[i]) THEN 0
    ELSE LET e == NonSpaceEnd(text, i)
         IN IF \E j \in (i + 1)..(e - 1) : text[j] = "@" THEN e - i + 1 ELSE 0

\* [-.]? at position i
SepLen(text, i) == IF i <= Len(text) /\ text[i] \in {"-", "."} THEN 1 ELSE 0

\* r"\b\d{3}[-.]?\d{3}[-.]?\d{4}\b" matched at position i
PhoneMatch(text, i) ==
    IF ~(Boundary(text, i) /\ DigitsAt(text, i, 3)) THEN 0
    ELSE LET a == i + 3 + SepLen(text, i + 3)
         IN IF ~DigitsAt(text, a, 3) THEN 0
            ELSE LET b == a + 3 + SepLen(text, a + 3)
                 IN IF DigitsAt(text, b, 4) /\ Boundary(text, b + 4) THEN b + 4 - i ELSE 0

\* r"\d{1,3}\." at position i: the position after it, 0 for no match
OctetDot(text, i) ==
    LET d == DigitRun(text, i)
    IN IF i >= 1 /\ d >= 1 /\ d <= 3 /\ i + d <= Len(text) /\ text[i + d] = "."
       THEN i + d + 1 ELSE 0

\* r"(\d{1,3}\.){count}" from position i: the position after it, 0 for no match
RECURSIVE OctetsDot(_, _, _)
OctetsDot(text, i, count) ==
    IF count = 0 \/ i = 0 THEN i ELSE OctetsDot(text, OctetDot(text, i), count - 1)

\* r"\d{1,3}\b" at position c closes a match begun at position i
LastOctet(text, i, c) ==
    IF c # 0 /\ DigitRun(text, c) \in 1..3 /\ Boundary(text, c + DigitRun(text, c))
    THEN c + DigitRun(text, c) - i ELSE 0

\* r"\b\d{1,3}\.\d{1,3}\.\d{1,3}\.\d{1,3}\b" matched at position i
IpMatch(text, i) ==
    IF ~Boundary(text, i) THEN 0 ELSE LastOctet(text, i, OctetsDot(text, i, 3))

\* the characters one step of the URL pattern's repeated group takes: a letter,
\* a digit, the range $-_ (which holds % and the upper-case letters), "@.&+" and
\* "!*\(),".  The alternative %[0-9a-fA-F][0-9a-fA-F] is never reached: "%" is
\* in the range $-_.  The importer's class [a-zA-Z0-9$-_.+!*'(),] is the same set.
UrlChars ==
    LowerLetters \cup UpperLetters \cup Digits
        \cup {"$", "%", "&", "'", "(", ")", "*", "+", ",", "-", ".", "/", ":", ";",
              "<", "=", ">", "?", "@", "[", "\\", "]", "^", "_", "!"}

RECURSIVE UrlRun(_, _)
UrlRun(text, i) ==
    IF i <= Len(text) /\ text[i] \in UrlChars THEN 1 + UrlRun(text, i + 1) ELSE 0

\* whether text holds the characters of lit from position i on
LiteralAt(text, i, lit) ==
    i + Len(lit) - 1 <= Len(text) /\ \A k \in 1..Len(lit) : text[i + k - 1] = lit[k]

\* r"http[s]?://(?:...)+" matched at position i
UrlMatch(text, i) ==
    IF ~LiteralAt(text, i, <<"h", "t", "t", "p">>) THEN 0
    ELSE LET a == IF LiteralAt(text, i + 4, <<"s">>) THEN i + 5 ELSE i + 4
         IN IF LiteralAt(text, a, <<":", "/", "/">>) /\ UrlRun(text, a + 3) >= 1
            THEN a + 3 + UrlRun(text, a + 3) - i ELSE 0

MatchLen(pattern, text, i) ==
    CASE pattern = "email" -> EmailMatch(text, i)
      [] pattern = "phone" -> PhoneMatch(text, i)
      [] pattern = "ip" -> IpMatch(text, i)
      [] pattern = "url" -> UrlMatch(text, i)

\* re.sub(pattern, repl, text): the leftmost non-overlapping matches, scanning
\* from position i; n is the length of the match at i
RECURSIVE SubFrom(_, _, _, _)
SubAt(pattern, repl, text, i, n) ==
    IF n > 0 THEN repl \o SubFrom(pattern, repl, text, i + n)
    ELSE <<text[i]>> \o SubFrom(pattern, repl, text, i + 1)

SubFrom(pattern, repl, text, i) ==
    IF i > Len(text) THEN <<>> ELSE SubAt(pattern, repl, text, i, MatchLen(pattern, text, i))

ReSub(pattern, repl, text) == SubFrom(pattern, repl, text, 1)

EMAIL == <<"LAQUO", "E", "M", "A", "I", "L", "RAQUO">>
PHONE == <<"LAQUO", "P", "H", "O", "N", "E", "RAQUO">>
IP == <<"LAQUO", "I", "P", "RAQUO">>
URL == <<"LAQUO", "U", "R", "L", "RAQUO">>

\* the four substitutions, in the order both redactors apply them
RedactAll(text) ==
    ReSub("url", URL, ReSub("ip", IP, ReSub("phone", PHONE, ReSub("email", EMAIL, text))))

(***************************************************************************)
(* Context packer: POST /context/pack                                      *)
(***************************************************************************)

\* the messages table holds at most this many rows when a pack is requested
MaxPackRows == 3

PackTs == {<<1, 0>>, <<1, 30>>}
PackTexts == {<<"a">>, <<"b">>}

PackRowUniverse ==
    [conv_id : ConvIds, msg_id : MsgIds, role : {"user"}, ts : PackTs,
     text : PackTexts, parent_id : {NULL}]

PackStores ==
    {S \in SUBSET PackRowUniverse : Cardinality(S) <= MaxPackRows /\ PrimaryKeyHolds(S)}

\* request.message_ids: '<conversation>/<message>' identifiers, split at the first "/"
PackIdentifiers == ConvIds \X MsgIds
\* request.message_ids holds at most this many identifiers
MaxPackIds == 2
PackMessageIds == UNION {[1..n -> PackIdentifiers] : n \in 0..MaxPackIds}

\* request.max_tokens (gt=0)
PackBudgets == 1..3

\* ts[:16]
Ts16(ts) == ts[1]

\* f"[{message['role']} (bullet) {message['ts'][:16]}] {message['text']}"; the bullet
\* character U+2022 is written " (bullet) "
FormatLine(message) ==
    <<"[", message.role, " (bullet) ", Ts16(message.ts), "] ", message.text>>

PackLines == {FormatLine(m) : m \in PackRowUniverse}

\* an encoding gives every line a token length; tiktoken
\* returns at least one token for a non-empty string
PackEncodings == [PackLines -> 1..2]

\* SELECT ... WHERE conv_id = ANY(conv_ids) AND msg_id = ANY(msg_ids)
PackSelected(rows, message_ids) ==
    LET conv_ids == {message_ids[i][1] : i \in 1..Len(message_ids)}
        msg_ids == {message_ids[i][2] : i \in 1..Len(message_ids)}
    IN {r \in rows : r.conv_id \in conv_ids /\ r.msg_id \in msg_ids}

\* ORDER BY ts ASC: any order of the selected rows that is ascending in ts
OrderedByTs(S) ==
    {f \in Orderings(S) : \A i, j \in 1..Cardinality(S) : i < j => TsLeq(f[i].ts, f[j].ts)}

\* the accumulation loop: context_parts and current_tokens after the messages from index i on
RECURSIVE PackLoop(_, _, _, _, _, _)
PackLoopNoBreak(rows, i, encoding, max_tokens, context_parts, current_tokens) ==
    IF i > Len(rows) THEN [context_parts |-> context_parts, current_tokens |-> current_tokens]
    ELSE LET formatted == FormatLine(rows[i])
             token_length == encoding[formatted]
         IN IF current_tokens + token_length > max_tokens
            THEN PackLoop(rows, i + 1, encoding, max_tokens, context_parts, current_tokens)
            ELSE PackLoop(rows, i + 1, encoding, max_tokens,
                          Append(context_parts, formatted), current_tokens + token_length)

PackLoopLateCheck(rows, i, encoding, max_tokens, context_parts, current_tokens) ==
    IF i > Len(rows) THEN [context_parts |-> context_parts, current_tokens |-> current_tokens]
    ELSE LET formatted == FormatLine(rows[i])
             token_length == encoding[formatted]
         IN IF current_tokens > max_tokens
            THEN [context_parts |-> context_parts, current_tokens |-> current_tokens]
            ELSE PackLoop(rows, i + 1, encoding, max_tokens,
                          Append(context_parts, formatted), current_tokens + token_length)

PackLoop(rows, i, encoding, max_tokens, context_parts, current_tokens) ==
    IF i > Len(rows) THEN [context_parts |-> context_parts, current_tokens |-> current_tokens]
    ELSE LET formatted == FormatLine(rows[i])
             token_length == encoding[formatted]
         IN IF current_tokens + token_length > max_tokens
            THEN [context_parts |-> context_parts, current_tokens |-> current_tokens]
            ELSE PackLoop(rows, i + 1, encoding, max_tokens,
                          Append(context_parts, formatted), current_tokens + token_length)

\* "\n\n".join(context_parts)
RECURSIVE JoinBlank(_)
JoinBlank(parts) ==
    IF parts = <<>> THEN <<>>
    ELSE IF Len(parts) = 1 THEN <<parts[1]>>
    ELSE <<parts[1], <<"\n\n">>>> \o JoinBlank(Tail(parts))

TruncationMarker(max_tokens) == <<"\n\n-- Truncated at ", max_tokens, " tokens --">>

TextBlockMarkerAlways(rows, context_parts, max_tokens) ==
    Append(JoinBlank(context_parts), TruncationMarker(max_tokens))

\* lines 704-706: the accepted lines joined by blank lines, and the marker when
\* a fetched message was left out
TextBlock(rows, context_parts, max_tokens) ==
    IF Len(rows) > Len(context_parts)
    THEN Append(JoinBlank(context_parts), TruncationMarker(max_tokens))
    ELSE JoinBlank(context_parts)

PackIdle == [status |-> "idle"]

BuildContextPackEmpty ==
    /\ pack = PackIdle
    /\ \E max_tokens \in PackBudgets, encoding \in PackEncodings :
        pack' = [status |-> "returned",
                 request |-> [message_ids |-> <<>>, max_tokens |-> max_tokens],
                 encoding |-> encoding,
                 messages |-> <<>>,
                 response |-> [text_block |-> <<>>, token_count |-> 0, message_count |-> 0]]
    /\ UNCHANGED <<messages, conversations, thread, norm, ingest, topics,
                 mcp, highlighter, embeddings, workers>>

BuildContextPackFetch ==
    /\ pack = PackIdle
    /\ \E message_ids \in PackMessageIds \ {<<>>}, max_tokens \in PackBudgets,
          encoding \in PackEncodings :
        \E rows \in OrderedByTs(PackSelected(messages, message_ids)) :
            LET out == PackLoop(rows, 1, encoding, max_tokens, <<>>, 0)
            IN pack' = [status |-> "returned",
                        request |-> [message_ids |-> message_ids, max_tokens |-> max_tokens],
                        encoding |-> encoding,
                        messages |-> rows,
                        response |-> [text_block |-> TextBlock(rows, out.context_parts,
                                                               max_tokens),
                                      token_count |-> out.current_tokens,
                                      message_count |-> Len(out.context_parts)]]
    /\ UNCHANGED <<messages, conversations, thread, norm, ingest, topics,
                 mcp, highlighter, embeddings, workers>>

BuildContextPack == BuildContextPackEmpty \/ BuildContextPackFetch

\* the response is sent; the request's locals are discarded
PackDone ==
    /\ pack.status = "returned"
    /\ pack' = PackIdle
    /\ UNCHANGED <<messages, conversations, thread, norm, ingest, topics,
                 mcp, highlighter, embeddings, workers>>

InitPack ==
    /\ messages \in PackStores
    /\ conversations = {}
    /\ pack = PackIdle
    /\ thread = [status |-> "idle"]
    /\ norm = [status |-> "idle"]
    /\ ingest = [status |-> "idle"]
    /\ topics = [status |-> "idle"]
    /\ mcp = McpIdle
    /\ highlighter = HighlightsIdle
    /\ embeddings = EmptyBag
    /\ workers = <<>>

NextPack == BuildContextPack \/ PackDone

SpecPack == InitPack /\ [][NextPack]_vars

(***************************************************************************)
(* Thread builder: GET /conversation/{conv_id}/thread/{msg_id}             *)
(***************************************************************************)

\* depth: Query(3, ge=1, le=10); the model lets it range over 1..MaxDepth
MaxDepth == 2

\* the ancestor walk has no iteration limit of its own; the model follows it
\* for at most this many iterations
MaxHops == 5

ThreadMsgIds == {"A", "B", "C"}
\* "Z" is the id of no stored message: a parent_id that dangles in every store
ThreadParentIds == ThreadMsgIds \cup {NULL, "Z"}
ThreadTs == {<<1, 0>>, <<2, 0>>}

ThreadRow(msg_id, parent_id, ts) ==
    [conv_id |-> "c1", msg_id |-> msg_id, role |-> "user", ts |-> ts,
     text |-> <<"a">>, parent_id |-> parent_id]

\* every content of conversation c1 over ThreadMsgIds: each id is absent (<<>>) or
\* stored once with some parent_id and ts; conversation c2 holds no message
ThreadStores ==
    {{ThreadRow(id, f[id][1], f[id][2]) : id \in {i \in ThreadMsgIds : f[i] # <<>>}} :
        f \in [ThreadMsgIds -> {<<>>} \cup (ThreadParentIds \X ThreadTs)]}

ThreadIdle == [status |-> "idle"]

\* Python truthiness of an Optional[str]: None and "" are false
Truthy(value) == value # NULL /\ value # ""

\* siblings.sort(key=lambda item: item.ts): a stable sort, built by insertion
RECURSIVE InsertByTs(_, _)
InsertByTsBeforeEqual(sorted, item) ==
    IF sorted = <<>> THEN <<item>>
    ELSE IF TsLeq(item.ts, sorted[Len(sorted)].ts)
         THEN Append(InsertByTs(SubSeq(sorted, 1, Len(sorted) - 1), item), sorted[Len(sorted)])
         ELSE Append(sorted, item)

InsertByTs(sorted, item) ==
    IF sorted = <<>> THEN <<item>>
    ELSE IF TsLess(item.ts, sorted[Len(sorted)].ts)
         THEN Append(InsertByTs(SubSeq(sorted, 1, Len(sorted) - 1), item), sorted[Len(sorted)])
         ELSE Append(sorted, item)

RECURSIVE StableSortByTs(_)
StableSortByTs(items) ==
    IF items = <<>> THEN <<>>
    ELSE InsertByTs(StableSortByTs(SubSeq(items, 1, Len(items) - 1)), items[Len(items)])

\* children_index: the rows grouped by parent_id in fetch order, each group sorted by ts
ChildrenIndex(rows) ==
    [parent_id \in {rows[i].parent_id : i \in 1..Len(rows)} |->
        StableSortByTs(SelectSeq(rows, LAMBDA r : r.parent_id = parent_id))]

\* children_index.get(node_id, [])
ChildrenOf(children_index, node_id) ==
    IF node_id \in DOMAIN children_index THEN children_index[node_id] ELSE <<>>

\* messages_by_id
MessagesById(rows) ==
    [msg_id \in {rows[i].msg_id : i \in 1..Len(rows)} |->
        CHOOSE r \in {rows[i] : i \in 1..Len(rows)} : r.msg_id = msg_id]

\* gather_descendants(node_id, current_depth)
RECURSIVE GatherDescendants(_, _, _, _)
RECURSIVE GatherChildren(_, _, _, _)
GatherDescendantsOffByOne(children_index, node_id, current_depth, depth) ==
    IF current_depth > depth THEN <<>>
    ELSE GatherChildren(children_index, ChildrenOf(children_index, node_id),
                        current_depth, depth)

GatherDescendants(children_index, node_id, current_depth, depth) ==
    IF current_depth >= depth THEN <<>>
    ELSE GatherChildren(children_index, ChildrenOf(children_index, node_id),
                        current_depth, depth)

\* the for loop of gather_descendants over the children from `children' on
GatherChildren(children_index, children, current_depth, depth) ==
    IF children = <<>> THEN <<>>
    ELSE <<Head(children)>>
         \o GatherDescendants(children_index, Head(children).msg_id, current_depth + 1, depth)
         \o GatherChildren(children_index, Tail(children), current_depth, depth)

\* ancestors.reverse()
RECURSIVE Reverse(_)
Reverse(s) == IF s = <<>> THEN <<>> ELSE Append(Reverse(Tail(s)), Head(s))

AncestorsNotReversed(ancestors) == ancestors

AncestorsRootFirst(ancestors) == Reverse(ancestors)

\* lines 485-499: the walk is over; reverse, gather the descendants and respond
ThreadReturn(t) ==
    [status |-> "returned", request |-> t.request, rows |-> t.rows,
     response |-> [status_code |-> 200,
                   anchor |-> t.anchor,
                   ancestors |-> AncestorsRootFirst(t.ancestors),
                   descendants |-> GatherDescendants(t.children_index, t.anchor.msg_id,
                                                     0, t.request.depth)]]

\* raise HTTPException(status_code=404, detail=...)
ThreadNotFound(request, rows, detail) ==
    [status |-> "returned", request |-> request, rows |-> rows,
     response |-> [status_code |-> 404, detail |-> detail]]

\* lines 468-478: the anchor is stored; index the rows, the walk starts at its parent
ThreadWalkFrom(request, rows, anchor) ==
    [status |-> "walking", request |-> request, rows |-> rows,
     children_index |-> ChildrenIndex(rows),
     anchor |-> anchor,
     ancestors |-> <<>>,
     current_parent |-> anchor.parent_id]

ThreadLookupNoMembershipCheck(request, rows) ==
    IF rows = <<>> THEN ThreadNotFound(request, rows, "Conversation not found")
    ELSE IF request.msg_id \notin DOMAIN MessagesById(rows)
    THEN [status |-> "returned", request |-> request, rows |-> rows,
          response |-> [status_code |-> 500, detail |-> "Internal Server Error"]]
    ELSE ThreadWalkFrom(request, rows, MessagesById(rows)[request.msg_id])

\* lines 457-478: the two not-found checks on the fetched rows, then the index
ThreadLookup(request, rows) ==
    IF rows = <<>> THEN ThreadNotFound(request, rows, "Conversation not found")
    ELSE IF request.msg_id \notin DOMAIN MessagesById(rows)
    THEN ThreadNotFound(request, rows, "Message not found in conversation")
    ELSE ThreadWalkFrom(request, rows, MessagesById(rows)[request.msg_id])

\* lines 440-478: fetch the conversation, index it, and start the ancestor walk
GetThreadStart ==
    /\ thread = ThreadIdle
    /\ \E conv_id \in ConvIds, msg_id \in ThreadMsgIds, depth \in 1..MaxDepth :
        \E rows \in Orderings({r \in messages : r.conv_id = conv_id}) :
            thread' = ThreadLookup([conv_id |-> conv_id, msg_id |-> msg_id, depth |-> depth],
                                   rows)
    /\ UNCHANGED <<messages, conversations, pack, norm, ingest, topics,
                 mcp, highlighter, embeddings, workers>>

\* lines 479-484: one test of the while condition and, if it holds, one iteration;
\* when the loop ends the rest of the handler runs
AncestorStep ==
    /\ thread.status = "walking"
    /\ Len(thread.ancestors) < MaxHops
    /\ LET messages_by_id == MessagesById(thread.rows)
           current_parent == thread.current_parent
       IN IF ~Truthy(current_parent)
          THEN thread' = ThreadReturn(thread)
          ELSE IF current_parent \notin DOMAIN messages_by_id
          THEN thread' = ThreadReturn(thread)
          ELSE thread' = [thread EXCEPT
                            !.ancestors = Append(@, messages_by_id[current_parent]),
                            !.current_parent = messages_by_id[current_parent].parent_id]
    /\ UNCHANGED <<messages, conversations, pack, norm, ingest, topics,
                 mcp, highlighter, embeddings, workers>>

\* the response is sent; the request's locals are discarded
ThreadDone ==
    /\ thread.status = "returned"
    /\ thread' = ThreadIdle
    /\ UNCHANGED <<messages, conversations, pack, norm, ingest, topics,
                 mcp, highlighter, embeddings, workers>>

InitThread ==
    /\ messages \in ThreadStores
    /\ conversations = {}
    /\ pack = PackIdle
    /\ thread = ThreadIdle
    /\ norm = [status |-> "idle"]
    /\ ingest = [status |-> "idle"]
    /\ topics = [status |-> "idle"]
    /\ mcp = McpIdle
    /\ highlighter = HighlightsIdle
    /\ embeddings = EmptyBag
    /\ workers = <<>>

NextThread == GetThreadStart \/ AncestorStep \/ ThreadDone

SpecThread == InitThread /\ [][NextThread]_vars

\* conversations of four messages: A is a root, and each of B, C and D is stored
\* with some message of the conversation as its parent and some ts
TreeStores ==
    {{ThreadRow("A", NULL, <<1, 0>>)}
        \cup {ThreadRow(id, f[id][1], f[id][2]) : id \in {"B", "C", "D"}} :
            f \in [{"B", "C", "D"} -> {"A", "B", "C", "D"} \X ThreadTs]}

InitThreadTree ==
    /\ messages \in TreeStores
    /\ conversations = {}
    /\ pack = PackIdle
    /\ thread = ThreadIdle
    /\ norm = [status |-> "idle"]
    /\ ingest = [status |-> "idle"]
    /\ topics = [status |-> "idle"]
    /\ mcp = McpIdle
    /\ highlighter = HighlightsIdle
    /\ embeddings = EmptyBag
    /\ workers = <<>>

\* get_thread on conversations wide and deep enough for a subtree between two
\* siblings
SpecThreadTree == InitThreadTree /\ [][NextThread]_vars

(***************************************************************************)
(* Normalizer: api/services/normalization.py and the importer's own copy   *)
(*                                                                         *)
(* A raw message is a mapping from keys to Python values.  A value is a    *)
(* record tagged by k: "absent" (the key is missing), "none" (None),       *)
(* "str" (a str, v its characters), "name" (a str the code never looks     *)
(* into, such as an id or a role), "num" (a number), "iso" (the ISO-8601   *)
(* text of the instant v), "parts" (the dict {"parts": [...]}, v the list  *)
(* of its elements, each None, a str or a number below 10).  The key       *)
(* author_role stands for msg["author"]["role"]: it is absent when the     *)
(* message has no author or the author no role.  The strings inside a      *)
(* parts list hold no quote, backslash or control character, so that       *)
(* their repr is the string between two single quotes.                     *)
(***************************************************************************)

Absent == [k |-> "absent"]
None == [k |-> "none"]
Str(chars) == [k |-> "str", v |-> chars]
Name(string) == [k |-> "name", v |-> string]
Num(n) == [k |-> "num", v |-> n]
Iso(n) == [k |-> "iso", v |-> n]
Parts(list) == [k |-> "parts", v |-> list]

\* msg.get(key, default)
DictGet(msg, key, default) == IF msg[key] = Absent THEN default ELSE msg[key]

\* Python truthiness: None, "" and 0 are false
Falsy(value) == value = None \/ value = Str(<<>>) \/ value = Num(0)

\* a or b
Or(a, b) == IF Falsy(a) THEN b ELSE a

\* sep.join(list)
RECURSIVE Join(_, _)
Join(sep, list) ==
    IF list = <<>> THEN <<>>
    ELSE IF Len(list) = 1 THEN list[1]
    ELSE list[1] \o sep \o Join(sep, Tail(list))

DigitChars == <<"0", "1", "2", "3", "4", "5", "6", "7", "8", "9">>

\* repr() of an element of a parts list
Repr(value) ==
    CASE value = None -> <<"N", "o", "n", "e">>
      [] value.k = "str" -> <<"'">> \o value.v \o <<"'">>
      [] value.k = "num" -> <<DigitChars[value.v + 1]>>

\* str() of the dict {"parts": [...]}
DictStr(list) ==
    <<"{", "'", "p", "a", "r", "t", "s", "'", ":", " ", "[">>
        \o Join(<<",", " ">>, [k \in DOMAIN list |-> Repr(list[k])])
        \o <<"]", "}">>

\* _safe_text(value)
SafeText(value) ==
    CASE value = None -> <<>>
      [] value.k = "str" -> value.v
      [] value.k = "parts" -> DictStr(value.v)

\* hashlib.sha256(text.encode()).hexdigest(): the digest stands for its preimage
Sha256(text) == [k |-> "sha256", v |-> text]

\* hash_value[:8]
Hex8(hash_value) == [k |-> "sha256[:8]", v |-> hash_value.v]

RedactTextAlways(text, enable_pii) == RedactAll(SafeText(text))

\* api/services: redact_text(text, enable_pii)
RedactText(text, enable_pii) ==
    LET clean_text == SafeText(text)
    IN IF ~enable_pii THEN clean_text ELSE RedactAll(clean_text)

\* import_chatgpt_export: redact_text(text), text a str
ImportRedactText(text) == RedactAll(text)

\* api/services: canonical_text, taken from the message again and not from the redacted text
ApiCanonicalText(msg, enable_pii) ==
    StrStrip(StrLower(SafeText(DictGet(msg, "content", DictGet(msg, "text", None)))))

\* api/services: normalize_message(msg, conv_id, owner_id, enable_pii=...), read at clock now
NormalizeMessage(msg, conv_id, owner_id, enable_pii, now) ==
    LET text == RedactText(DictGet(msg, "content", DictGet(msg, "text", None)), enable_pii)
        hash_value == Sha256(ApiCanonicalText(msg, enable_pii))
        timestamp == DictGet(msg, "create_time", DictGet(msg, "timestamp", None))
    IN [conv_id |-> conv_id,
        msg_id |-> DictGet(msg, "id", Hex8(hash_value)),
        owner_id |-> owner_id,
        role |-> DictGet(msg, "role", Name("user")),
        ts |-> IF timestamp = None THEN Iso(now) ELSE timestamp,
        text |-> Str(text),
        parent_id |-> DictGet(msg, "parent", None),
        hash |-> hash_value,
        meta |-> [model |-> DictGet(msg, "model", None),
                  source |-> DictGet(msg, "source", Name("chatgpt_export"))]]

\* importer: "\n".join([p for p in parts if isinstance(p, str)])
JoinStringParts(list) ==
    Join(<<"\n">>, [k \in DOMAIN SelectSeq(list, LAMBDA part : part.k = "str") |->
                        SelectSeq(list, LAMBDA part : part.k = "str")[k].v])

\* importer: the text taken from the message (content.parts, else content, else
\* text, else "")
ImportExtractText(msg) ==
    IF msg.content.k = "parts" THEN JoinStringParts(msg.content.v)
    ELSE SafeText(Or(DictGet(msg, "content", DictGet(msg, "text", Str(<<>>))), Str(<<>>)))

\* importer: datetime.fromtimestamp(ts, tz=utc).isoformat() when ts is a number
ImportTs(ts) == IF ts.k = "num" THEN Iso(ts.v) ELSE ts

\* importer: normalize_message(msg, conv_id, owner_id, fallback_ts), read at clock now
ImportNormalizeMessage(msg, conv_id, owner_id, fallback_ts, now) ==
    LET text == ImportRedactText(ImportExtractText(msg))
        canonical_text == StrStrip(StrLower(text))
        hash_value == Sha256(canonical_text)
        ts == Or(Or(Or(DictGet(msg, "create_time", None),
                       DictGet(msg, "timestamp", None)), fallback_ts), Num(now))
        role == Or(Or(DictGet(msg, "role", None), DictGet(msg, "author_role", None)),
                   Name("user"))
    IN [conv_id |-> conv_id,
        msg_id |-> DictGet(msg, "id", Hex8(hash_value)),
        role |-> role,
        ts |-> ImportTs(ts),
        text |-> Str(text),
        parent_id |-> DictGet(msg, "parent", None),
        hash |-> hash_value,
        meta |-> [model |-> DictGet(msg, "model", None),
                  source |-> DictGet(msg, "source", Name("chatgpt_export"))]]

\* the raw texts: up to MaxChunks pieces, among them one of each kind the redactor looks for
MaxChunks == 2

TextChunks ==
    {<<"H", "i">>, <<" ">>, <<"b", "@", "x">>,
     <<"5", "5", "5", "-", "1", "2", "3", "-", "4", "5", "6", "7">>,
     <<"1", ".", "2", ".", "3", ".", "4">>,
     <<"h", "t", "t", "p", ":", "/", "/", "x">>}

RECURSIVE ChunkTexts(_)
ChunkTexts(n) ==
    IF n = 0 THEN {<<>>}
    ELSE ChunkTexts(n - 1) \cup {t \o c : t \in ChunkTexts(n - 1), c \in TextChunks}

NormTexts == ChunkTexts(MaxChunks)

\* raw messages with every text of NormTexts as content
NormTextMessages ==
    [content : {Absent, None} \cup {Str(t) : t \in NormTexts},
     text : {Absent, None, Str(<<"B", "@", "y", " ">>)},
     id : {Absent, Name("m1")},
     role : {Absent, Name("assistant")},
     author_role : {Absent},
     create_time : {Absent, Num(1)},
     timestamp : {Absent},
     parent : {Absent},
     model : {Absent},
     source : {Absent}]

\* degraded raw messages: each of the seven keys absent, None or set
NormDegradedMessages ==
    [content : {Absent, None, Str(<<"H", "i">>)},
     text : {Absent, None, Str(<<"B", "@", "y", " ">>)},
     id : {Absent, None, Name("m1")},
     role : {Absent, None, Name("assistant")},
     author_role : {Absent},
     create_time : {Absent, None, Num(1)},
     timestamp : {Absent, None, Num(3)},
     parent : {Absent},
     model : {Absent},
     source : {Absent, None, Name("web")}]

\* the parts lists of a content: one part; an empty part between two parts,
\* the last with an e-mail address; parts that are no strings; no part
NormParts ==
    {<<Str(<<"H", "i">>)>>,
     <<Str(<<"H", "i">>), Str(<<>>), Str(<<"b", "@", "x">>)>>,
     <<None, Str(<<"H", "i">>), Num(7)>>,
     <<>>}

\* raw messages in the shape of the export: content.parts and author.role
NormNestedMessages ==
    [content : {Absent} \cup {Parts(list) : list \in NormParts},
     text : {Absent, Str(<<"B", "@", "y", " ">>)},
     id : {Absent},
     role : {Absent, None, Name("user")},
     author_role : {Absent, None, Name("assistant")},
     create_time : {Absent},
     timestamp : {Absent},
     parent : {Absent},
     model : {Absent},
     source : {Absent}]

\* the raw messages normalize_message is given
NormMessages == NormTextMessages \cup NormDegradedMessages \cup NormNestedMessages

\* the clock readings of datetime.now()
Clock == {8, 9}

NormIdle == [status |-> "idle"]

NormalizeMessageApi ==
    /\ norm = NormIdle
    /\ \E msg \in NormMessages, enable_pii \in BOOLEAN, now \in Clock :
        norm' = [status |-> "returned", impl |-> "api", msg |-> msg,
                 enable_pii |-> enable_pii,
                 result |-> NormalizeMessage(msg, "c1", "default", enable_pii, now)]
    /\ UNCHANGED <<messages, conversations, pack, thread, ingest, topics,
                 mcp, highlighter, embeddings, workers>>

NormalizeMessageImport ==
    /\ norm = NormIdle
    /\ \E msg \in NormMessages, fallback_ts \in {None, Num(2)}, now \in Clock :
        norm' = [status |-> "returned", impl |-> "import", msg |-> msg,
                 enable_pii |-> TRUE,
                 result |-> ImportNormalizeMessage(msg, "c1", "default", fallback_ts, now)]
    /\ UNCHANGED <<messages, conversations, pack, thread, ingest, topics,
                 mcp, highlighter, embeddings, workers>>

\* api/services: redact_text called on its own, as the tests call it
RedactTextCall ==
    /\ norm = NormIdle
    /\ \E text \in {Str(chars) : chars \in NormTexts} \cup {None}, enable_pii \in BOOLEAN :
        norm' = [status |-> "redacted", text |-> text, enable_pii |-> enable_pii,
                 result |-> RedactText(text, enable_pii)]
    /\ UNCHANGED <<messages, conversations, pack, thread, ingest, topics,
                 mcp, highlighter, embeddings, workers>>

\* the caller has the record; the call's arguments are discarded
NormDone ==
    /\ norm.status \in {"returned", "redacted"}
    /\ norm' = NormIdle
    /\ UNCHANGED <<messages, conversations, pack, thread, ingest, topics,
                 mcp, highlighter, embeddings, workers>>

InitNorm ==
    /\ messages = {}
    /\ conversations = {}
    /\ pack = PackIdle
    /\ thread = ThreadIdle
    /\ norm = NormIdle
    /\ ingest = [status |-> "idle"]
    /\ topics = [status |-> "idle"]
    /\ mcp = McpIdle
    /\ highlighter = HighlightsIdle
    /\ embeddings = EmptyBag
    /\ workers = <<>>

NextNorm == NormalizeMessageApi \/ NormalizeMessageImport \/ RedactTextCall \/ NormDone

SpecNorm == InitNorm /\ [][NextNorm]_vars

(***************************************************************************)
(* Ingestion: POST /ingest/chatgpt-export and the command-line importer    *)
(*                                                                         *)
(* A stored message row holds the values the INSERT was given.  The clock  *)
(* is read once per request.                                               *)
(***************************************************************************)

\* row of the messages table from a normalised record (owner_id is not a column)
MessageRow(normalised) ==
    [conv_id |-> normalised.conv_id, msg_id |-> normalised.msg_id,
     role |-> normalised.role, ts |-> normalised.ts, text |-> normalised.text,
     parent_id |-> normalised.parent_id, hash |-> normalised.hash,
     meta |-> normalised.meta]

SameKey(r1, r2) == r1.conv_id = r2.conv_id /\ r1.msg_id = r2.msg_id

InsertMessageDoUpdate(table, row) ==
    {r \in table : ~SameKey(r, row)} \cup {row}

\* INSERT INTO messages ... ON CONFLICT (conv_id, msg_id) DO NOTHING
InsertMessage(table, row) ==
    IF \E r \in table : SameKey(r, row) THEN table ELSE table \cup {row}

\* execute_batch(cur, INSERT ..., messages): one INSERT per tuple, in order
RECURSIVE InsertBatch(_, _)
InsertBatch(table, rows) ==
    IF rows = <<>> THEN table
    ELSE InsertBatch(InsertMessage(table, Head(rows)), Tail(rows))

\* INSERT INTO conversations ... ON CONFLICT (conv_id) DO UPDATE SET title = EXCLUDED.title
UpsertConversation(table, conv_id, title, owner_id) ==
    IF \E c \in table : c.conv_id = conv_id
    THEN {IF c.conv_id = conv_id THEN [c EXCEPT !.title = title] ELSE c : c \in table}
    ELSE table \cup {[conv_id |-> conv_id, title |-> title, owner_id |-> owner_id]}

\* INSERT INTO conversations ... ON CONFLICT (conv_id) DO NOTHING
InsertConversation(table, conv_id, title, owner_id) ==
    IF \E c \in table : c.conv_id = conv_id THEN table
    ELSE table \cup {[conv_id |-> conv_id, title |-> title, owner_id |-> owner_id]}

\* `if not message_payload: continue': the nodes of a mapping that carry a message
HasMessage(node) == node.message # Absent /\ node.message # None

\* the (key, node) pairs of a mapping that reach normalisation, in mapping order
WithMessage(mapping) == SelectSeq(mapping, LAMBDA entry : HasMessage(entry[2]))

\* main.py 235-254: the tuples of one conversation; the mapping key becomes the id
ApiRows(mapping, conv_id, owner_id, now) ==
    LET entries == WithMessage(mapping)
    IN [k \in 1..Len(entries) |->
           LET msg_id == entries[k][1]
               msg_data == entries[k][2]
               message_payload == [msg_data.message EXCEPT !["id"] = Name(msg_id)]
           IN MessageRow(NormalizeMessage(message_payload, conv_id, owner_id, TRUE, now))]

\* import_chatgpt_export.py 124-136: the tuples of one conversation
ImportRows(mapping, conv_id, owner_id, fallback_ts, now) ==
    LET entries == WithMessage(mapping)
    IN [k \in 1..Len(entries) |->
           LET node == entries[k][2]
           IN MessageRow(ImportNormalizeMessage(node.message, conv_id, owner_id,
                                                fallback_ts, now))]

\* main.py 220-267: the loop over the conversations from index i on; db holds the
\* tables as written so far in the transaction.  conv_data["id"] raises KeyError
\* when the key is missing.  len(messages) is the number of nodes with a message.
RECURSIVE ApiIngestFrom(_, _, _, _, _)
ApiIngestFrom(conversations_json, i, db, owner_id, now) ==
    IF i > Len(conversations_json) THEN [db EXCEPT !.ok = TRUE]
    ELSE LET conv_data == conversations_json[i]
         IN IF conv_data.id = Absent THEN [db EXCEPT !.ok = FALSE]
            ELSE LET conv_id == conv_data.id.v
                     title == DictGet(conv_data, "title", Name("Untitled")).v
                     rows == ApiRows(conv_data.mapping, conv_id, owner_id, now)
                 IN ApiIngestFrom(conversations_json, i + 1,
                        [ok |-> TRUE,
                         conversations |-> UpsertConversation(db.conversations, conv_id,
                                                              title, owner_id),
                         messages |-> InsertBatch(db.messages, rows),
                         total_imported |-> db.total_imported + Len(WithMessage(conv_data.mapping)),
                         conv_count |-> db.conv_count + 1],
                        owner_id, now)

\* conv_data.get('create_time') or conv_data.get('update_time')
FallbackTs(conv_data) ==
    Or(DictGet(conv_data, "create_time", None), DictGet(conv_data, "update_time", None))

\* import_chatgpt_export.py 107-148: the same loop of the importer
RECURSIVE ImportIngestFrom(_, _, _, _, _)
ImportIngestFrom(conversations_json, i, db, owner_id, now) ==
    IF i > Len(conversations_json) THEN [db EXCEPT !.ok = TRUE]
    ELSE LET conv_data == conversations_json[i]
         IN IF conv_data.id = Absent THEN [db EXCEPT !.ok = FALSE]
            ELSE LET conv_id == conv_data.id.v
                     title == DictGet(conv_data, "title", Name("Untitled")).v
                     fallback_ts == FallbackTs(conv_data)
                     rows == ImportRows(conv_data.mapping, conv_id, owner_id,
                                        fallback_ts, now)
                 IN ImportIngestFrom(conversations_json, i + 1,
                        [ok |-> TRUE,
                         conversations |-> InsertConversation(db.conversations, conv_id,
                                                              title, owner_id),
                         messages |-> InsertBatch(db.messages, rows),
                         total_imported |-> db.total_imported + Len(WithMessage(conv_data.mapping)),
                         conv_count |-> db.conv_count + 1],
                        owner_id, now)

\* the tables at the start of a transaction
Transaction(message_table, conversation_table) ==
    [ok |-> TRUE, conversations |-> conversation_table, messages |-> message_table,
     total_imported |-> 0, conv_count |-> 0]

\* db_cursor / conn.rollback(): an exception leaves the tables as they were
IngestRollback(message_table, conversation_table, status_code) ==
    [messages |-> message_table, conversations |-> conversation_table,
     response |-> [status_code |-> status_code]]

\* a db_cursor that commits in a finally clause: what was written before the
\* exception stays
IngestFinishCommitsAlways(end, message_table, conversation_table) ==
    IF ~end.ok
    THEN [messages |-> end.messages, conversations |-> end.conversations,
          response |-> [status_code |-> 500]]
    ELSE [messages |-> end.messages, conversations |-> end.conversations,
          response |-> [status_code |-> 200, imported |-> end.total_imported,
                        conversations |-> end.conv_count]]

\* db_cursor / conn.commit(): the loop ended in transaction state end
IngestFinish(end, message_table, conversation_table) ==
    IF ~end.ok THEN IngestRollback(message_table, conversation_table, 500)
    ELSE [messages |-> end.messages, conversations |-> end.conversations,
          response |-> [status_code |-> 200, imported |-> end.total_imported,
                        conversations |-> end.conv_count]]

\* the whole request on path "api" or "import": the tables it leaves and its outcome.
\* An archive that cannot be opened raises before anything is written.
IngestOutcome(path, archive, message_table, conversation_table, owner_id, now) ==
    CASE archive.k = "bad_zip" -> IngestRollback(message_table, conversation_table, 400)
      [] archive.k = "missing" -> IngestRollback(message_table, conversation_table, 404)
      [] archive.k = "zip" /\ path = "api" ->
            IngestFinish(ApiIngestFrom(archive.conversations, 1,
                                       Transaction(message_table, conversation_table),
                                       owner_id, now),
                         message_table, conversation_table)
      [] archive.k = "zip" /\ path = "import" ->
            IngestFinish(ImportIngestFrom(archive.conversations, 1,
                                          Transaction(message_table, conversation_table),
                                          owner_id, now),
                         message_table, conversation_table)

\* an export holds at most this many conversations
MaxExportConvs == 2

RawMessage(content, id, create_time) ==
    [content |-> content, text |-> Absent, id |-> id, role |-> Absent,
     author_role |-> Absent, create_time |-> create_time, timestamp |-> Absent,
     parent |-> Absent, model |-> Absent, source |-> Absent]

\* a message with its own id and time; one with PII, no id and no time; the same with a time
PayloadHi == RawMessage(Str(<<"H", "i">>), Name("n1"), Num(1))
PayloadMail == RawMessage(Str(<<"b", "@", "x">>), Absent, Absent)
PayloadMailTimed == RawMessage(Str(<<"b", "@", "x">>), Absent, Num(1))

\* a node without a message, then a message whose own id is its mapping key
MappingHi == <<<<"n0", [message |-> Absent]>>, <<"n1", [message |-> PayloadHi]>>>>

\* two messages with the same text and no id of their own
MappingMail ==
    <<<<"n1", [message |-> PayloadMail]>>, <<"n2", [message |-> PayloadMailTimed]>>>>

ExportConversation(id, title, create_time, mapping) ==
    [id |-> id, title |-> title, create_time |-> create_time, update_time |-> Absent,
     mapping |-> mapping]

\* conversation c1 under two titles and with two mappings that share the key n1,
\* a second conversation that carries a create_time, and one without an id
ExportConversations ==
    {ExportConversation(Name("c1"), Name("t1"), Absent, MappingHi),
     ExportConversation(Name("c1"), Name("t2"), Absent, MappingMail),
     ExportConversation(Name("c2"), Name("t1"), Num(2), MappingMail),
     ExportConversation(Absent, Name("t1"), Absent, <<>>)}

Exports == UNION {[1..n -> ExportConversations] : n \in 0..MaxExportConvs}

Archives ==
    {[k |-> "bad_zip"], [k |-> "missing"]} \cup {[k |-> "zip", conversations |-> e] : e \in Exports}

IngestIdle == [status |-> "idle"]

\* the request returns: the tables and the response are those of the outcome
IngestReturn(path, archive, now, outcome) ==
    /\ messages' = outcome.messages
    /\ conversations' = outcome.conversations
    /\ ingest' = [status |-> "returned", path |-> path, archive |-> archive, now |-> now,
                  response |-> outcome.response]

\* POST /ingest/chatgpt-export
IngestChatgptExport ==
    /\ ingest = IngestIdle
    /\ topics = [status |-> "idle"]
    /\ \E archive \in Archives, now \in Clock :
        IngestReturn("api", archive, now,
                     IngestOutcome("api", archive, messages, conversations, "default", now))
    /\ UNCHANGED <<pack, thread, norm, topics, mcp, highlighter, embeddings, workers>>

\* import_chatgpt_export(zip_path, db_url, owner_id)
ImportChatgptExport ==
    /\ ingest = IngestIdle
    /\ topics = [status |-> "idle"]
    /\ \E archive \in Archives, now \in Clock :
        IngestReturn("import", archive, now,
                     IngestOutcome("import", archive, messages, conversations, "default", now))
    /\ UNCHANGED <<pack, thread, norm, topics, mcp, highlighter, embeddings, workers>>

\* the caller has the response
IngestDone ==
    /\ ingest.status = "returned"
    /\ ingest' = IngestIdle
    /\ UNCHANGED <<messages, conversations, pack, thread, norm, topics,
                 mcp, highlighter, embeddings, workers>>

InitIngest ==
    /\ messages = {}
    /\ conversations = {}
    /\ pack = PackIdle
    /\ thread = ThreadIdle
    /\ norm = NormIdle
    /\ ingest = IngestIdle
    /\ topics = [status |-> "idle"]
    /\ mcp = McpIdle
    /\ highlighter = HighlightsIdle
    /\ embeddings = EmptyBag
    /\ workers = <<>>

NextIngest == IngestChatgptExport \/ ImportChatgptExport \/ IngestDone

SpecIngest == InitIngest /\ [][NextIngest]_vars

(***************************************************************************)
(* Topic extraction: extract_topics                                        *)
(*                                                                         *)
(* A ts is None or Iso(n), n >= 1, a non-empty string; the strings order   *)
(* as their n.  The three characters U+00E2 U+20AC U+00A6 that _trim_text   *)
(* appends are written "U+00E2", "U+20AC" and "U+00A6".                    *)
(***************************************************************************)

\* _STOPWORDS
Stopwords ==
    {<<"a">>, <<"a", "n">>, <<"a", "n", "d">>, <<"a", "r", "e">>,
     <<"a", "s">>, <<"a", "t">>, <<"b", "e">>, <<"b", "u", "t">>,
     <<"b", "y">>, <<"f", "o", "r">>, <<"f", "r", "o", "m">>, <<"h", "a", "s">>,
     <<"h", "a", "v", "e">>, <<"h", "e">>, <<"h", "e", "r">>, <<"h", "e", "r", "e">>,
     <<"h", "i", "m">>, <<"h", "i", "s">>, <<"i">>, <<"i", "n">>,
     <<"i", "n", "t", "o">>, <<"i", "s">>, <<"i", "t">>, <<"i", "t", "s">>,
     <<"m", "e">>, <<"m", "y">>, <<"o", "f">>, <<"o", "n">>,
     <<"o", "r">>, <<"o", "u", "r">>, <<"s", "h", "e">>, <<"s", "o">>,
     <<"t", "h", "a", "t">>, <<"t", "h", "e">>, <<"t", "h", "e", "i", "r">>, <<"t", "h", "e", "m">>,
     <<"t", "h", "e", "r", "e">>, <<"t", "h", "e", "y">>, <<"t", "h", "i", "s">>, <<"t", "o">>,
     <<"w", "e">>, <<"w", "i", "t", "h">>, <<"y", "o", "u">>, <<"y", "o", "u", "r">>}

IsLetter(c) == c \in UpperLetters \cup LowerLetters

\* [A-Za-z0-9']
IsTokenChar(c) == IsLetter(c) \/ IsDigit(c) \/ c = "'"

\* the length of the run of [A-Za-z0-9'] at position i
RECURSIVE TokenRun(_, _)
TokenRun(text, i) ==
    IF i <= Len(text) /\ IsTokenChar(text[i]) THEN 1 + TokenRun(text, i + 1) ELSE 0

\* _WORD_PATTERN, r"[A-Za-z][A-Za-z0-9']+", matched at position i: the length, 0 for none
WordMatch(text, i) ==
    IF IsLetter(text[i]) /\ TokenRun(text, i + 1) >= 1 THEN 1 + TokenRun(text, i + 1) ELSE 0

\* match.group(0).lower() for the matches of _WORD_PATTERN.finditer(text) from
\* position i on; n is the length of the match at i
RECURSIVE FindAllFrom(_, _)
FindAllAt(text, i, n) ==
    IF n > 0 THEN <<StrLower(SubSeq(text, i, i + n - 1))>> \o FindAllFrom(text, i + n)
    ELSE FindAllFrom(text, i + 1)

FindAllFrom(text, i) ==
    IF i > Len(text) THEN <<>> ELSE FindAllAt(text, i, WordMatch(text, i))

\* str.isdigit()
IsDigitString(token) == token # <<>> /\ \A k \in DOMAIN token : IsDigit(token[k])

\* token not in _STOPWORDS and len(token) > 2 and not token.isdigit()
KeepToken(token) == token \notin Stopwords /\ Len(token) > 2 /\ ~IsDigitString(token)

\* the list read off the set of the words found: every kept token once, in the
\* order in which this run of the interpreter iterates its strings
SetToList(found, order) ==
    SelectSeq(order, LAMBDA token :
                 (\E k \in DOMAIN found : found[k] = token) /\ KeepToken(token))

TokeniseInstances(text, order) ==
    IF text = None \/ text = Str(<<>>) THEN <<>>
    ELSE SelectSeq(FindAllFrom(text.v, 1), KeepToken)

\* _tokenise(text)
Tokenise(text, order) ==
    IF text = None \/ text = Str(<<>>) THEN <<>>
    ELSE SetToList(FindAllFrom(text.v, 1), order)

\* _trim_text: limit
TrimLimit == 280

\* _trim_text after (text or "").strip()
TrimClean(clean_text) ==
    IF Len(clean_text) <= TrimLimit THEN clean_text
    ELSE RStrip(SubSeq(clean_text, 1, TrimLimit)) \o <<"U+00E2", "U+20AC", "U+00A6">>

\* _trim_text(text)
TrimText(text) == TrimClean(StrStrip(IF text = None THEN <<>> ELSE text.v))

\* TopicSample(...) of a message
TopicSample(message) ==
    [conv_id |-> message.conv_id, msg_id |-> message.msg_id, ts |-> message.ts,
     role |-> message.role, text |-> TrimText(message.text)]

\* the message ids in string order
TopicMsgIds == <<"m1", "m2", "m3">>
MsgRank(msg_id) == CHOOSE k \in DOMAIN TopicMsgIds : TopicMsgIds[k] = msg_id

\* ts or ""
TsKey(ts) == IF ts = None THEN 0 ELSE ts.v

\* (item.ts or "", item.msg_id)
SampleKey(item) == <<TsKey(item.ts), MsgRank(item.msg_id)>>

\* tuple comparison a <= b
KeyLeq(a, b) == a[1] < b[1] \/ (a[1] = b[1] /\ a[2] <= b[2])

\* list.sort(key=...) is stable: item goes behind every element whose key is not greater
RECURSIVE InsertSample(_, _)
InsertSample(sorted, item) ==
    IF sorted = <<>> THEN <<item>>
    ELSE IF KeyLeq(SampleKey(Head(sorted)), SampleKey(item))
         THEN <<Head(sorted)>> \o InsertSample(Tail(sorted), item)
         ELSE <<item>> \o sorted

RECURSIVE SortSamples(_)
SortSamples(list) ==
    IF list = <<>> THEN <<>>
    ELSE InsertSample(SortSamples(SubSeq(list, 1, Len(list) - 1)), list[Len(list)])

\* list[:n]
Truncate(list, n) == IF Len(list) > n THEN SubSeq(list, 1, n) ELSE list

RecordSampleUnsorted(list, message, sample_limit) ==
    Truncate(Append(list, TopicSample(message)), sample_limit)

\* _record_sample on store[token] = list: append, sort, cut to sample_limit
RecordSample(list, message, sample_limit) ==
    Truncate(SortSamples(Append(list, TopicSample(message))), sample_limit)

\* the messages extract_topics is given are drawn from these
TopicMessageUniverse ==
    {[conv_id |-> "c1", msg_id |-> "m1", ts |-> None, role |-> "user",
      text |-> Str(<<"c", "a", "t", " ", "C", "a", "t">>)],
     [conv_id |-> "c1", msg_id |-> "m2", ts |-> Iso(1), role |-> "user",
      text |-> Str(<<"t", "h", "e", " ", "c", "a", "t", " ", "d", "o", "g">>)],
     [conv_id |-> "c1", msg_id |-> "m3", ts |-> Iso(2), role |-> "user",
      text |-> Str(<<"o", "w", "l", " ", "d", "o", "g", " ", "c", "a", "t">>)],
     [conv_id |-> "c2", msg_id |-> "m1", ts |-> Iso(1), role |-> "user",
      text |-> Str(<<"D", "o", "g", " ", "a", "'", " ", "1", "2">>)],
     [conv_id |-> "c2", msg_id |-> "m2", ts |-> Iso(2), role |-> "user",
      text |-> None]}

\* every token a message of the universe yields
TopicVocabulary ==
    UNION {{token \in {FindAllFrom(message.text.v, 1)[k] :
                          k \in DOMAIN FindAllFrom(message.text.v, 1)} : KeepToken(token)}
           : message \in {m \in TopicMessageUniverse : m.text # None}}

\* the iteration orders a run of the interpreter can have
TokenOrders == Orderings(TopicVocabulary)

\* counter (with the order in which its keys were inserted), first_seen and samples
EmptyTally ==
    [order |-> <<>>,
     counter |-> [token \in TopicVocabulary |-> 0],
     first_seen |-> [token \in TopicVocabulary |-> None],
     samples |-> [token \in TopicVocabulary |-> <<>>]]

CountTokenLastSeen(tally, token, message, sample_limit) ==
    [order |-> IF tally.counter[token] = 0 THEN Append(tally.order, token) ELSE tally.order,
     counter |-> [tally.counter EXCEPT ![token] = @ + 1],
     first_seen |-> [tally.first_seen EXCEPT ![token] = message.ts],
     samples |-> [tally.samples EXCEPT ![token] = RecordSample(@, message, sample_limit)]]

\* topics.py 157-161: one token of one message
CountToken(tally, token, message, sample_limit) ==
    [order |-> IF tally.counter[token] = 0 THEN Append(tally.order, token) ELSE tally.order,
     counter |-> [tally.counter EXCEPT ![token] = @ + 1],
     first_seen |-> IF tally.counter[token] = 0
                    THEN [tally.first_seen EXCEPT ![token] = message.ts]
                    ELSE tally.first_seen,
     samples |-> [tally.samples EXCEPT ![token] = RecordSample(@, message, sample_limit)]]

\* topics.py 156-161: the tokens of one message
RECURSIVE CountTokens(_, _, _, _)
CountTokens(tally, unique_tokens, message, sample_limit) ==
    IF unique_tokens = <<>> THEN tally
    ELSE CountTokens(CountToken(tally, Head(unique_tokens), message, sample_limit),
                     Tail(unique_tokens), message, sample_limit)

\* topics.py 151-161: the messages from index i on
RECURSIVE ScanMessages(_, _, _, _, _)
ScanMessages(tally, msgs, i, order, sample_limit) ==
    IF i > Len(msgs) THEN tally
    ELSE ScanMessages(CountTokens(tally, Tokenise(msgs[i].text, order), msgs[i],
                                  sample_limit),
                      msgs, i + 1, order, sample_limit)

\* topics.py 163-165: in the order of counter.items()
FilteredTokens(tally, min_occurrences) ==
    SelectSeq(tally.order, LAMBDA token : tally.counter[token] >= min_occurrences)

\* (-counter[a], first_seen.get(a) or "") <= (-counter[b], first_seen.get(b) or "")
RankLeq(tally, a, b) ==
    \/ tally.counter[a] > tally.counter[b]
    \/ /\ tally.counter[a] = tally.counter[b]
       /\ TsKey(tally.first_seen[a]) <= TsKey(tally.first_seen[b])

RECURSIVE InsertToken(_, _, _)
InsertToken(tally, sorted, token) ==
    IF sorted = <<>> THEN <<token>>
    ELSE IF RankLeq(tally, Head(sorted), token)
         THEN <<Head(sorted)>> \o InsertToken(tally, Tail(sorted), token)
         ELSE <<token>> \o sorted

RankTokensUnsorted(tally, filtered_tokens) == filtered_tokens

\* topics.py 170: filtered_tokens.sort(key=...), stable
RECURSIVE RankTokens(_, _)
RankTokens(tally, filtered_tokens) ==
    IF filtered_tokens = <<>> THEN <<>>
    ELSE InsertToken(tally,
                     RankTokens(tally, SubSeq(filtered_tokens, 1, Len(filtered_tokens) - 1)),
                     filtered_tokens[Len(filtered_tokens)])

\* TopicBundle(...); weight occurrences / total_messages is kept as the pair
TopicBundle(tally, token, total_messages) ==
    [label |-> token,
     occurrences |-> tally.counter[token],
     weight |-> <<tally.counter[token], total_messages>>,
     first_seen_ts |-> tally.first_seen[token],
     anchors |-> tally.samples[token]]

\* topics.py 172-186
Bundles(tally, top_tokens, total_messages) ==
    [k \in 1..Len(top_tokens) |-> TopicBundle(tally, top_tokens[k], total_messages)]

\* topics.py 163-186: from the tally to the result
BundlesOf(tally, limit, min_occurrences, total_messages) ==
    Bundles(tally,
            Truncate(RankTokens(tally, FilteredTokens(tally, min_occurrences)), limit),
            total_messages)

ExtractTopicsLateValidation(msgs, limit, min_occurrences, sample_limit, order) ==
    IF Len(msgs) = 0 THEN [k |-> "list", v |-> <<>>]
    ELSE IF limit < 1 \/ min_occurrences < 1 \/ sample_limit < 1 THEN [k |-> "ValueError"]
    ELSE [k |-> "list",
          v |-> BundlesOf(ScanMessages(EmptyTally, msgs, 1, order, sample_limit),
                          limit, min_occurrences, Len(msgs))]

ExtractTopicsOverTokenMessages(msgs, limit, min_occurrences, sample_limit, order) ==
    IF limit < 1 \/ min_occurrences < 1 \/ sample_limit < 1 THEN [k |-> "ValueError"]
    ELSE IF Len(msgs) = 0 THEN [k |-> "list", v |-> <<>>]
    ELSE [k |-> "list",
          v |-> BundlesOf(ScanMessages(EmptyTally, msgs, 1, order, sample_limit),
                          limit, min_occurrences,
                          Len(SelectSeq(msgs, LAMBDA m : Tokenise(m.text, order) # <<>>)))]

\* extract_topics(messages, limit=, min_occurrences=, sample_limit=)
ExtractTopics(msgs, limit, min_occurrences, sample_limit, order) ==
    IF limit < 1 \/ min_occurrences < 1 \/ sample_limit < 1 THEN [k |-> "ValueError"]
    ELSE IF Len(msgs) = 0 THEN [k |-> "list", v |-> <<>>]
    ELSE [k |-> "list",
          v |-> BundlesOf(ScanMessages(EmptyTally, msgs, 1, order, sample_limit),
                          limit, min_occurrences, Len(msgs))]

\* extract_topics is given at most this many messages
MaxTopicMsgs == 3

\* limit, min_occurrences and sample_limit are drawn from 0..MaxTopicParam
MaxTopicParam == 2

TopicMessageLists == UNION {[1..n -> TopicMessageUniverse] : n \in 0..MaxTopicMsgs}

\* the arguments of a call
TopicCalls ==
    [status : {"called"}, messages : TopicMessageLists, limit : 0..MaxTopicParam,
     min_occurrences : 0..MaxTopicParam, sample_limit : 0..MaxTopicParam]

\* extract_topics runs on its arguments, in a run of the interpreter with some
\* iteration order, and returns or raises
ExtractTopicsCall ==
    /\ topics.status = "called"
    /\ \E order \in TokenOrders :
          topics' = [status |-> "returned", messages |-> topics.messages,
                     limit |-> topics.limit, min_occurrences |-> topics.min_occurrences,
                     sample_limit |-> topics.sample_limit,
                     result |-> ExtractTopics(topics.messages, topics.limit,
                                              topics.min_occurrences, topics.sample_limit,
                                              order)]
    /\ UNCHANGED <<messages, conversations, pack, thread, norm, ingest,
                 mcp, highlighter, embeddings, workers>>

\* extract_topics is called once more on the same arguments, by this or by another
\* run of the interpreter (str hashes are seeded per process): the iteration
\* order of the second call is its own
ExtractTopicsAgain ==
    /\ topics.status = "returned"
    /\ \E order \in TokenOrders :
          topics' = [status |-> "repeated", messages |-> topics.messages,
                     limit |-> topics.limit, min_occurrences |-> topics.min_occurrences,
                     sample_limit |-> topics.sample_limit,
                     first |-> topics.result,
                     result |-> ExtractTopics(topics.messages, topics.limit,
                                              topics.min_occurrences, topics.sample_limit,
                                              order)]
    /\ UNCHANGED <<messages, conversations, pack, thread, norm, ingest,
                 mcp, highlighter, embeddings, workers>>

InitTopics ==
    /\ messages = {}
    /\ conversations = {}
    /\ pack = PackIdle
    /\ thread = ThreadIdle
    /\ norm = NormIdle
    /\ ingest = IngestIdle
    /\ topics \in TopicCalls
    /\ mcp = McpIdle
    /\ highlighter = HighlightsIdle
    /\ embeddings = EmptyBag
    /\ workers = <<>>

NextTopics == ExtractTopicsCall \/ ExtractTopicsAgain

SpecTopics == InitTopics /\ [][NextTopics]_vars

\* text repeated n times
Repeat(text, n) == [i \in 1..(n * Len(text)) |-> text[((i - 1) % Len(text)) + 1]]

\* messages around the limit of _trim_text: 279 characters after strip(); 283
\* characters after strip(), the 280th a blank; 283 characters after strip(),
\* the 276th to the 280th blanks; a short text with blanks around it
LongMessageUniverse ==
    {[conv_id |-> "c1", msg_id |-> "m1", ts |-> Iso(1), role |-> "user",
      text |-> Str(Repeat(<<"c", "a", "t", " ">>, 70))],
     [conv_id |-> "c1", msg_id |-> "m2", ts |-> Iso(1), role |-> "user",
      text |-> Str(Repeat(<<"c", "a", "t", " ">>, 71))],
     [conv_id |-> "c1", msg_id |-> "m3", ts |-> Iso(2), role |-> "user",
      text |-> Str(Repeat(<<"c", "a", "t", " ">>, 69) \o Repeat(<<" ">>, 4)
                       \o <<"d", "o", "g", " ">>)],
     [conv_id |-> "c2", msg_id |-> "m1", ts |-> None, role |-> "user",
      text |-> Str(<<" ", "c", "a", "t", " ", "d", "o", "g", " ">>)]}

\* the store of a token holds at most this many samples when _record_sample is called
MaxStored == 2

\* the lists store[token] can hold: samples of messages, sorted by _record_sample
StoredSamples ==
    {SortSamples([k \in DOMAIN list |-> TopicSample(list[k])]) :
        list \in UNION {[1..n -> LongMessageUniverse] : n \in 0..MaxStored}}

\* the arguments of a call of _record_sample
SampleCalls ==
    [status : {"called"}, list : StoredSamples, message : LongMessageUniverse,
     sample_limit : 1..(MaxStored + 1)]

\* _record_sample runs for one token of one message
RecordSampleCall ==
    /\ topics.status = "called"
    /\ topics' = [status |-> "recorded", message |-> topics.message,
                  sample_limit |-> topics.sample_limit, before |-> topics.list,
                  list |-> RecordSample(topics.list, topics.message, topics.sample_limit)]
    /\ UNCHANGED <<messages, conversations, pack, thread, norm, ingest,
                 mcp, highlighter, embeddings, workers>>

InitSample ==
    /\ messages = {}
    /\ conversations = {}
    /\ pack = PackIdle
    /\ thread = ThreadIdle
    /\ norm = NormIdle
    /\ ingest = IngestIdle
    /\ topics \in SampleCalls
    /\ mcp = McpIdle
    /\ highlighter = HighlightsIdle
    /\ embeddings = EmptyBag
    /\ workers = <<>>

NextSample == RecordSampleCall

\* _record_sample on messages whose text is longer than an anchor may be
SpecSample == InitSample /\ [][NextSample]_vars

(***************************************************************************)
(* MCP server: mcp_server.py                                               *)
(*                                                                         *)
(* A tool call is a name, an arguments mapping and, for the environment,   *)
(* the way the HTTP API answers the one request the tool sends.  The       *)
(* arguments are a mapping from keys to Python values as in the            *)
(* normalizer, with "list" (v the elements) and "dict" (v the items in     *)
(* insertion order, each a pair <<key, value>>) added.  A formatted        *)
(* string is a record of the f-string's template and the values put into   *)
(* it.  The argument models are pydantic models with the default           *)
(* configuration: keys that are not fields of the model are ignored.       *)
(***************************************************************************)

List(items) == [k |-> "list", v |-> items]
Dict(items) == [k |-> "dict", v |-> items]
Text(template, fields) == [k |-> "text", template |-> template, fields |-> fields]

McpKeys ==
    {"query", "k", "filters", "conv_id", "message_ids", "max_tokens", "from", "to", "limit"}

NoArguments == [key \in McpKeys |-> Absent]

\* an int field with a default and the bounds ge, le
IntField(value, default, ge, le) ==
    IF value = Absent THEN [ok |-> TRUE, v |-> default]
    ELSE IF value.k = "num" /\ value.v >= ge /\ value.v <= le
         THEN [ok |-> TRUE, v |-> value.v]
         ELSE [ok |-> FALSE]

\* a required str field with min_length=1
StrField(value) == value.k = "str" /\ Len(value.v) >= 1

\* a str | None field with the default None
OptionalStrField(value) ==
    IF value = Absent \/ value = None THEN [ok |-> TRUE, v |-> None]
    ELSE IF value.k = "str" THEN [ok |-> TRUE, v |-> value]
    ELSE [ok |-> FALSE]

\* the outcome of model_validate: the model, or a ValidationError
ValidationError == [ok |-> FALSE]

SearchMessagesArgs(arguments) ==
    LET k == IntField(arguments["k"], 10, 1, 200)
    IN IF StrField(arguments["query"]) /\ k.ok
       THEN [ok |-> TRUE, query |-> arguments["query"], k |-> Num(k.v)]
       ELSE ValidationError

GetTimelineArgs(arguments) ==
    IF StrField(arguments["conv_id"])
    THEN [ok |-> TRUE, conv_id |-> arguments["conv_id"]]
    ELSE ValidationError

BuildContextPackArgs(arguments) ==
    LET message_ids == arguments["message_ids"]
        max_tokens == IntField(arguments["max_tokens"], 6000, 100, 16384)
    IN IF /\ message_ids.k = "list"
          /\ Len(message_ids.v) >= 1
          /\ \A i \in DOMAIN message_ids.v : message_ids.v[i].k = "str"
          /\ max_tokens.ok
       THEN [ok |-> TRUE, message_ids |-> message_ids, max_tokens |-> Num(max_tokens.v)]
       ELSE ValidationError

TopicMapArgs(arguments) ==
    LET from_ == OptionalStrField(arguments["from"])
        to == OptionalStrField(arguments["to"])
        limit == IntField(arguments["limit"], 10, 1, 200)
    IN IF from_.ok /\ to.ok /\ limit.ok
       THEN [ok |-> TRUE, from_ |-> from_.v, to |-> to.v, limit |-> Num(limit.v)]
       ELSE ValidationError

\* what a method of EchoGardenAPI comes to: the requests it sent, the exception
\* it raised ("none" when it returned) and the string it returned
Returned(requests, text) == [requests |-> requests, raised |-> "none", text |-> text]
Raised(requests, exception) == [requests |-> requests, raised |-> exception]

\* snippet of lines 115-117
Snippet(value) ==
    LET stripped == StrStrip(IF Falsy(value) THEN <<>> ELSE value.v)
    IN IF Len(stripped) > 240
       THEN Str(SubSeq(stripped, 1, 237) \o <<".", ".", ".">>)
       ELSE Str(stripped)

\* lines 110-131: a hit whose score is null cannot be formatted with .2f
FormatSearch(request, payload) ==
    LET results == IF payload.results = Absent THEN <<>> ELSE payload.results.v
    IN IF results = <<>>
       THEN Returned(<<request>>, Text("No results matched your search query.", <<>>))
       ELSE IF \E i \in DOMAIN results : results[i].score.k # "num"
       THEN Raised(<<request>>, "TypeError")
       ELSE Returned(<<request>>,
                Text("Found {len(results)} results:\n\n{formatted}",
                     <<Num(Len(results)),
                       List([i \in DOMAIN results |->
                               Text("{index}. [{role}] {ts}\n   Conversation: {conv_id}\n   Score: {score:.2f}\n   {snippet}",
                                    <<Num(i), results[i].role, results[i].ts,
                                      results[i].conv_id, results[i].score,
                                      Snippet(results[i].text)>>)])>>))

\* lines 141-159: str.join refuses a text that is null
FormatTimeline(request, payload) ==
    LET timeline == IF payload.messages = Absent THEN <<>> ELSE payload.messages.v
    IN IF timeline = <<>>
       THEN Returned(<<request>>,
                Text("No messages were returned for the requested conversation.", <<>>))
       ELSE IF \E i \in DOMAIN timeline : timeline[i].text.k # "str"
       THEN Raised(<<request>>, "TypeError")
       ELSE Returned(<<request>>,
                Text("Conversation timeline ({len(messages)} messages):\n\n{formatted}",
                     <<Num(Len(timeline)),
                       List([i \in DOMAIN timeline |->
                               Text("[{role}] {ts}\n{text}",
                                    <<timeline[i].role, timeline[i].ts,
                                      timeline[i].text>>)])>>))

\* lines 172-174
FormatContextPack(request, payload) ==
    Returned(<<request>>,
        Text("Context pack ({token_count} tokens):\n\n{text_block}",
             <<DictGet(payload, "token_count", Num(0)),
               DictGet(payload, "text_block", Str(<<>>))>>))

\* lines 184-201: str.join refuses an anchor that is not a str; the bullet of
\* the source is written * here
FormatTopics(request, payload) ==
    LET entries == IF payload.topics = Absent THEN <<>> ELSE payload.topics.v
    IN IF entries = <<>>
       THEN Returned(<<request>>,
                Text("No topics were available for the requested period.", <<>>))
       ELSE IF \E i \in DOMAIN entries :
                  \E j \in DOMAIN entries[i].anchors.v :
                      j <= 3 /\ entries[i].anchors.v[j].k # "str"
       THEN Raised(<<request>>, "TypeError")
       ELSE Returned(<<request>>,
                Text("Topic map:\n\n{formatted}",
                     <<List([i \in DOMAIN entries |->
                               Text("* {label} (weight: {weight:.2f})\n  Anchors: {anchor_preview}",
                                    <<entries[i].label, entries[i].weight,
                                      IF entries[i].anchors.v = <<>> THEN Name("None")
                                      ELSE List(SubSeq(entries[i].anchors.v, 1,
                                               IF Len(entries[i].anchors.v) < 3
                                               THEN Len(entries[i].anchors.v)
                                               ELSE 3))>>)])>>))

\* the request is sent; raise_for_status() and response.json() may raise; the
\* payload is formatted
ApiExchange(request, reply, tool) ==
    IF reply.kind = "transport_error" THEN Raised(<<request>>, "HTTPError")
    ELSE IF reply.kind = "status_error" THEN Raised(<<request>>, "HTTPStatusError")
    ELSE IF reply.kind = "not_json" THEN Raised(<<request>>, "ValueError")
    ELSE CASE tool = "search_messages" -> FormatSearch(request, reply.payload)
           [] tool = "get_timeline" -> FormatTimeline(request, reply.payload)
           [] tool = "build_context_pack" -> FormatContextPack(request, reply.payload)
           [] tool = "topic_map" -> FormatTopics(request, reply.payload)

Get(url, params) == [method |-> "GET", url |-> url, params |-> params]
Post(url, json) == [method |-> "POST", url |-> url, json |-> json]

search_messages(args, reply) ==
    ApiExchange(Get(<<"/search">>, [q |-> args.query, k |-> args.k]), reply, "search_messages")

get_timeline(args, reply) ==
    ApiExchange(Get(<<"/conversation/", args.conv_id, "/timeline">>, <<>>), reply,
                "get_timeline")

build_context_pack(args, reply) ==
    ApiExchange(Post(<<"/context/pack">>,
                     [message_ids |-> args.message_ids, max_tokens |-> args.max_tokens]),
                reply, "build_context_pack")

topic_map(args, reply) ==
    ApiExchange(Get(<<"/topics">>,
                    [from |-> args.from_, to |-> args.to, limit |-> args.limit]),
                reply, "topic_map")

ToolNames == {"search_messages", "get_timeline", "build_context_pack", "topic_map"}

\* the body of the try statement for a name that is a tool
Dispatch(name, arguments, reply) ==
    LET params == CASE name = "search_messages" -> SearchMessagesArgs(arguments)
                    [] name = "get_timeline" -> GetTimelineArgs(arguments)
                    [] name = "build_context_pack" -> BuildContextPackArgs(arguments)
                    [] name = "topic_map" -> TopicMapArgs(arguments)
    IN IF ~params.ok THEN Raised(<<>>, "ValidationError")
       ELSE CASE name = "search_messages" -> search_messages(params, reply)
              [] name = "get_timeline" -> get_timeline(params, reply)
              [] name = "build_context_pack" -> build_context_pack(params, reply)
              [] name = "topic_map" -> topic_map(params, reply)

InvalidArguments == Text("Invalid arguments supplied: {exc}", <<Name("ValidationError")>>)
ApiError ==
    Text("The EchoGarden API returned an error while processing your request.", <<>>)
ApiUnreachable ==
    Text("The EchoGarden API could not be reached. Please confirm the server is running.",
         <<>>)
UnknownTool(name) == Text("Unknown tool: {name}", <<Name(name)>>)
Unexpected(exception) == Text("An unexpected error occurred: {exc}", <<Name(exception)>>)

TextResponse(run, message) ==
    [status |-> "returned", requests |-> run.requests, result |-> message]

RespondWithoutSafeguard(run) ==
    CASE run.raised = "none" -> TextResponse(run, run.text)
      [] run.raised = "ValidationError" -> TextResponse(run, InvalidArguments)
      [] run.raised = "HTTPStatusError" -> TextResponse(run, ApiError)
      [] run.raised = "HTTPError" -> TextResponse(run, ApiUnreachable)
      [] OTHER -> [status |-> "raised", requests |-> run.requests,
                   exception |-> run.raised]

\* the return of the try body and the four except clauses
Respond(run) ==
    CASE run.raised = "none" -> TextResponse(run, run.text)
      [] run.raised = "ValidationError" -> TextResponse(run, InvalidArguments)
      [] run.raised = "HTTPStatusError" -> TextResponse(run, ApiError)
      [] run.raised = "HTTPError" -> TextResponse(run, ApiUnreachable)
      [] OTHER -> TextResponse(run, Unexpected(run.raised))

call_tool(name, arguments, reply) ==
    IF name \in ToolNames THEN Respond(Dispatch(name, arguments, reply))
    ELSE [status |-> "returned", requests |-> <<>>, result |-> UnknownTool(name)]

\* the longest list in a payload of the API
MaxHits == 2

ListsOf(items) == {List(list) : list \in UNION {[1..n -> items] : n \in 0..MaxHits}}

SearchHits ==
    {[role |-> Name("user"), ts |-> Name("t1"), conv_id |-> Name("c1"), score |-> score,
      text |-> text] :
        score \in {Num(1), None}, text \in {Str(<<" ", "h", "i">>), None}}

TimelineMessages ==
    {[role |-> Name("user"), ts |-> Name("t1"), text |-> text] :
        text \in {Str(<<"h", "i">>), None}}

AnchorLists ==
    {List(<<>>), List(<<Dict(<<<<"msg_id", Name("m1")>>>>)>>), List(<<Str(<<"m", "1">>)>>)}

TopicEntries ==
    {[label |-> Name("cat"), weight |-> Num(1), anchors |-> anchors] :
        anchors \in AnchorLists}

Payloads(name) ==
    CASE name = "search_messages" ->
            {[results |-> results] : results \in ListsOf(SearchHits) \cup {Absent}}
      [] name = "get_timeline" ->
            {[messages |-> list] : list \in ListsOf(TimelineMessages) \cup {Absent}}
      [] name = "build_context_pack" ->
            {[token_count |-> Num(3), text_block |-> Str(<<"h", "i">>)],
             [token_count |-> Absent, text_block |-> Absent]}
      [] name = "topic_map" ->
            {[topics |-> list] : list \in ListsOf(TopicEntries) \cup {Absent}}
      [] OTHER -> {}

Replies(name) ==
    {[kind |-> "transport_error"], [kind |-> "status_error"], [kind |-> "not_json"]}
        \cup {[kind |-> "ok", payload |-> payload] : payload \in Payloads(name)}

Filters == Dict(<<<<Str(<<"r">>), Str(<<"a">>)>>, <<Str(<<"c">>), Str(<<"c">>)>>>>)

McpArguments ==
    {NoArguments,
     [NoArguments EXCEPT !["query"] = Str(<<"a", "t">>)],
     [NoArguments EXCEPT !["query"] = Str(<<"a", "t">>), !["k"] = Num(5)],
     [NoArguments EXCEPT !["query"] = Str(<<"a", "t">>), !["k"] = Num(5),
                         !["filters"] = Filters],
     [NoArguments EXCEPT !["query"] = Str(<<"a", "t">>), !["filters"] = Dict(<<>>)],
     [NoArguments EXCEPT !["query"] = Str(<<"a", "t">>), !["k"] = Num(200)],
     [NoArguments EXCEPT !["query"] = Str(<<"a", "t">>), !["k"] = Num(201)],
     [NoArguments EXCEPT !["query"] = Str(<<"a", "t">>), !["k"] = Num(0)],
     [NoArguments EXCEPT !["query"] = Str(<<"a", "t">>), !["k"] = None],
     [NoArguments EXCEPT !["query"] = Str(<<>>)],
     [NoArguments EXCEPT !["query"] = Num(7)],
     [NoArguments EXCEPT !["conv_id"] = Str(<<"c", "1">>)],
     [NoArguments EXCEPT !["conv_id"] = Str(<<>>)],
     [NoArguments EXCEPT !["message_ids"] = List(<<Str(<<"c", "/", "m">>)>>)],
     [NoArguments EXCEPT !["message_ids"] = List(<<Str(<<"c", "/", "m">>)>>),
                         !["max_tokens"] = Num(99)],
     [NoArguments EXCEPT !["message_ids"] = List(<<>>)],
     [NoArguments EXCEPT !["message_ids"] = List(<<Num(1)>>)],
     [NoArguments EXCEPT !["from"] = Str(<<"2", "0", "2", "5">>), !["limit"] = Num(3)],
     [NoArguments EXCEPT !["to"] = None, !["limit"] = Num(0)],
     [NoArguments EXCEPT !["from"] = Num(2025)]}

McpNames == ToolNames \cup {"delete_everything", ""}

McpCalls ==
    UNION {[status : {"called"}, name : {name}, arguments : McpArguments,
            reply : IF name \in ToolNames THEN Replies(name)
                    ELSE {[kind |-> "transport_error"]}] : name \in McpNames}

\* call_tool runs to its end
CallTool ==
    /\ mcp.status = "called"
    /\ mcp' = [call |-> mcp] @@ call_tool(mcp.name, mcp.arguments, mcp.reply)
    /\ UNCHANGED <<messages, conversations, pack, thread, norm, ingest, topics,
                   highlighter, embeddings, workers>>

InitMcp ==
    /\ messages = {}
    /\ conversations = {}
    /\ pack = PackIdle
    /\ thread = ThreadIdle
    /\ norm = NormIdle
    /\ ingest = IngestIdle
    /\ topics = [status |-> "idle"]
    /\ mcp \in McpCalls
    /\ highlighter = HighlightsIdle
    /\ embeddings = EmptyBag
    /\ workers = <<>>

NextMcp == CallTool

\* every tool call of every name, arguments mapping and answer of the API
SpecMcp == InitMcp /\ [][NextMcp]_vars

(***************************************************************************)
(* Search highlighter: api/services/search.py                               *)
(*                                                                         *)
(* Offsets are Python's: the first character of a text is at offset 0, a   *)
(* match or span covers the offsets from start up to but not including     *)
(* end.  The terms hold no character that re.escape would change.          *)
(***************************************************************************)

Maximum(a, b) == IF a > b THEN a ELSE b
Minimum(a, b) == IF a < b THEN a ELSE b

\* text[start:end]
Slice(text, start, end) == SubSeq(text, start + 1, end)

\* one escaped term matches at offset p, letter case ignored
TermAt(text, term, p) ==
    /\ p + Len(term) <= Len(text)
    /\ \A i \in 1..Len(term) : LowerChar(text[p + i]) = LowerChar(term[i])

\* the pattern at offset p: the number of characters the first alternative
\* that matches there takes, -1 when none matches
PatternAt(text, normalised_terms, p) ==
    IF \E k \in DOMAIN normalised_terms : TermAt(text, normalised_terms[k], p)
    THEN Len(normalised_terms[CHOOSE k \in DOMAIN normalised_terms :
                /\ TermAt(text, normalised_terms[k], p)
                /\ \A j \in 1..(k - 1) : ~TermAt(text, normalised_terms[j], p)])
    ELSE -1

\* pattern.finditer(text) from offset pos on: the matches left to right, each
\* starting where the one before it ended or later
RECURSIVE FindIter(_, _, _)
FindIter(text, normalised_terms, pos) ==
    IF \A p \in pos..(Len(text) - 1) : PatternAt(text, normalised_terms, p) = -1
    THEN <<>>
    ELSE LET start == CHOOSE p \in pos..(Len(text) - 1) :
                         /\ PatternAt(text, normalised_terms, p) # -1
                         /\ \A q \in pos..(p - 1) : PatternAt(text, normalised_terms, q) = -1
         IN <<[start |-> start, end |-> start + PatternAt(text, normalised_terms, start)]>>
                \o FindIter(text, normalised_terms,
                            start + PatternAt(text, normalised_terms, start))

\* range(start, end) around a match
Span(text, match, window) ==
    [start |-> Maximum(match.start - window, 0),
     stop |-> Minimum(match.end + window, Len(text))]

OverlapsNever(span, previous) == FALSE

\* line 51: the two ranges share an offset
Overlaps(span, previous) ==
    Maximum(span.start, previous.start) < Minimum(span.stop, previous.stop)

\* the offset of the first occurrence of needle in text
Find(text, needle) ==
    CHOOSE p \in 0..(Len(text) - Len(needle)) :
        /\ Slice(text, p, p + Len(needle)) = needle
        /\ \A q \in 0..(p - 1) : Slice(text, q, q + Len(needle)) # needle

\* snippet.replace(group, "**" + group + "**", 1)
ReplaceFirst(snippet, group) ==
    Slice(snippet, 0, Find(snippet, group)) \o <<"*", "*">> \o group \o <<"*", "*">>
        \o Slice(snippet, Find(snippet, group) + Len(group), Len(snippet))

Ellipsis == "U+2026"

\* lines 54-59
Highlighted(text, match, span) ==
    (IF span.start > 0 THEN <<Ellipsis>> ELSE <<>>)
        \o ReplaceFirst(Slice(text, span.start, span.stop),
                        Slice(text, match.start, match.end))
        \o (IF span.stop < Len(text) THEN <<Ellipsis>> ELSE <<>>)

\* lines 46-66: the loop from the i-th match on
RECURSIVE HighlightLoop(_, _, _, _, _, _, _)
RECURSIVE HighlightAccept(_, _, _, _, _, _, _)
HighlightAccept(text, matches, i, window, limit, highlights, seen_spans) ==
    IF Len(highlights) >= limit
    THEN [highlights |-> highlights, seen_spans |-> seen_spans]
    ELSE HighlightLoop(text, matches, i + 1, window, limit, highlights, seen_spans)

HighlightLoop(text, matches, i, window, limit, highlights, seen_spans) ==
    IF i > Len(matches)
    THEN [highlights |-> highlights, seen_spans |-> seen_spans]
    ELSE IF \E k \in DOMAIN seen_spans :
               Overlaps(Span(text, matches[i], window), seen_spans[k])
    THEN HighlightLoop(text, matches, i + 1, window, limit, highlights, seen_spans)
    ELSE HighlightAccept(text, matches, i, window, limit,
             Append(highlights, Highlighted(text, matches[i], Span(text, matches[i], window))),
             Append(seen_spans, Span(text, matches[i], window)))

\* [term.lower() for term in terms if term]
NormalisedTerms(terms) == SelectSeq([i \in DOMAIN terms |-> StrLower(terms[i])],
                                    LAMBDA term : term # <<>>)

\* build_highlights(text, terms, window=window, limit=limit): the list returned
\* and, of the locals, the matches the pattern finds and the spans kept
build_highlights(text, terms, window, limit) ==
    IF text = <<>> \/ terms = <<>> \/ NormalisedTerms(terms) = <<>>
    THEN [highlights |-> <<>>, seen_spans |-> <<>>]
    ELSE HighlightLoop(text, FindIter(text, NormalisedTerms(terms), 0), 1, window, limit,
                       <<>>, <<>>)

\* the longest text and the largest limit
MaxTextLen == 4
MaxLimit == 2

HighlightAlphabet == {"a", "b", "A"}
HighlightTexts == UNION {[1..n -> HighlightAlphabet] : n \in 0..MaxTextLen}
HighlightTerms == {<<>>, <<"a">>, <<"B">>, <<"a", "b">>}
HighlightTermLists == UNION {[1..n -> HighlightTerms] : n \in 0..2}
HighlightWindows == 0..2

HighlightCalls ==
    [status : {"called"}, text : HighlightTexts, terms : HighlightTermLists,
     window : HighlightWindows, limit : 1..MaxLimit]

BuildHighlights ==
    /\ highlighter.status = "called"
    /\ highlighter' = [call |-> highlighter, status |-> "returned"]
                        @@ build_highlights(highlighter.text, highlighter.terms,
                                            highlighter.window, highlighter.limit)
    /\ UNCHANGED <<messages, conversations, pack, thread, norm, ingest, topics,
                   mcp, embeddings, workers>>

InitHighlights ==
    /\ messages = {}
    /\ conversations = {}
    /\ pack = PackIdle
    /\ thread = ThreadIdle
    /\ norm = NormIdle
    /\ ingest = IngestIdle
    /\ topics = [status |-> "idle"]
    /\ mcp = McpIdle
    /\ highlighter \in HighlightCalls
    /\ embeddings = EmptyBag
    /\ workers = <<>>

NextHighlights == BuildHighlights

\* build_highlights on every text, list of terms, window and limit
SpecHighlights == InitHighlights /\ [][NextHighlights]_vars

(***************************************************************************)
(* Embedding worker: worker/tasks.py                                       *)
(*                                                                         *)
(* Every execution of embed_message has its own connection and so its own  *)
(* transaction, committed when the with block ends and rolled back when    *)
(* an exception leaves it.  A statement is one step; a SELECT reads the    *)
(* rows committed so far.  The definition of message_embeddings is not     *)
(* part of the worker: whether the table has a unique key on               *)
(* (conv_id, msg_id) is a choice of the environment, made in the initial   *)
(* state.  With the key an INSERT of a pair another transaction has        *)
(* inserted and not yet committed waits for that transaction, and an       *)
(* INSERT of a committed pair raises.                                      *)
(***************************************************************************)

\* executions of embed_message under way at once, and retries of one task
MaxExecutions == 2
MaxRetries == 1

Executions == 1..MaxExecutions
EmbedPairs == {<<"c1", "m1">>, <<"c1", "m2">>}

Task(pair) == [pc |-> "select_message", pair |-> pair, retries |-> 0]

\* the row of a pair is in the messages table
MessageStored(pair) == \E r \in messages : r.conv_id = pair[1] /\ r.msg_id = pair[2]

\* lines 60-67: SELECT text FROM messages; return when there is no row
SelectMessage(e) ==
    /\ workers.tasks[e].pc = "select_message"
    /\ workers' = [workers EXCEPT !.tasks[e].pc =
                      IF MessageStored(workers.tasks[e].pair) THEN "select_embedding"
                      ELSE "returned"]
    /\ UNCHANGED embeddings

\* lines 71-77: SELECT 1 FROM message_embeddings; return when there is a row
SelectEmbedding(e) ==
    /\ workers.tasks[e].pc = "select_embedding"
    /\ workers' = [workers EXCEPT !.tasks[e].pc =
                      IF BagIn(workers.tasks[e].pair, embeddings) THEN "returned"
                      ELSE "create"]
    /\ UNCHANGED embeddings

\* lines 79-81: the embedding is computed
CreateEmbedding(e) ==
    /\ workers.tasks[e].pc = "create"
    /\ workers' = [workers EXCEPT !.tasks[e].pc = "insert"]
    /\ UNCHANGED embeddings

\* lines 82-84: OpenAIError; self.retry raises, the transaction is rolled back
\* and the task runs again from its start until max_retries is used up
CreateEmbeddingFails(e) ==
    /\ workers.tasks[e].pc = "create"
    /\ workers' = [workers EXCEPT !.tasks[e] =
                      IF @.retries < MaxRetries
                      THEN [@ EXCEPT !.pc = "select_message", !.retries = @ + 1]
                      ELSE [@ EXCEPT !.pc = "raised"]]
    /\ UNCHANGED embeddings

\* another execution has inserted the pair and not yet committed
PendingElsewhere(e) ==
    \E other \in Executions \ {e} :
        /\ workers.tasks[other].pc = "commit"
        /\ workers.tasks[other].pair = workers.tasks[e].pair

\* lines 86-92: INSERT INTO message_embeddings
InsertEmbedding(e) ==
    /\ workers.tasks[e].pc = "insert"
    /\ workers.unique_key => ~PendingElsewhere(e)
    /\ workers' = [workers EXCEPT !.tasks[e].pc =
                      IF workers.unique_key /\ BagIn(workers.tasks[e].pair, embeddings)
                      THEN "raised" ELSE "commit"]
    /\ UNCHANGED embeddings

\* the with block ends: the transaction commits
CommitEmbedding(e) ==
    /\ workers.tasks[e].pc = "commit"
    /\ embeddings' = embeddings (+) SetToBag({workers.tasks[e].pair})
    /\ workers' = [workers EXCEPT !.tasks[e].pc = "returned"]

EmbedMessage ==
    /\ \E e \in Executions :
          \/ SelectMessage(e)
          \/ SelectEmbedding(e)
          \/ CreateEmbedding(e)
          \/ CreateEmbeddingFails(e)
          \/ InsertEmbedding(e)
          \/ CommitEmbedding(e)
    /\ UNCHANGED <<messages, conversations, pack, thread, norm, ingest, topics,
                   mcp, highlighter>>

InitEmbed ==
    /\ messages \in SUBSET {ThreadRow("m1", NULL, <<1, 0>>)}
    /\ conversations = {}
    /\ pack = PackIdle
    /\ thread = ThreadIdle
    /\ norm = NormIdle
    /\ ingest = IngestIdle
    /\ topics = [status |-> "idle"]
    /\ mcp = McpIdle
    /\ highlighter = HighlightsIdle
    /\ embeddings = EmptyBag
    /\ workers \in [unique_key : BOOLEAN, tasks : [Executions -> {Task(pair) : pair \in EmbedPairs}]]

NextEmbed == EmbedMessage

\* executions of embed_message, interleaved statement by statement
SpecEmbed == InitEmbed /\ [][NextEmbed]_vars

(***************************************************************************)
(* Thread builder: properties                                              *)
(***************************************************************************)

\* the k-th parent of message id among rows; NULL when the chain ends before
RECURSIVE KthParent(_, _, _)
KthParent(rows, id, k) ==
    IF k = 0 THEN id
    ELSE LET found == {r \in rows : r.msg_id = id}
         IN IF found = {} THEN NULL
            ELSE KthParent(rows, (CHOOSE r \in found : TRUE).parent_id, k - 1)

\* no message is its own k-th parent
Acyclic(rows) ==
    \A r \in rows : \A k \in 1..Cardinality(rows) : KthParent(rows, r.msg_id, k) # r.msg_id

ThreadRowSet == {thread.rows[i] : i \in 1..Len(thread.rows)}

ThreadAnswered == thread.status = "returned" /\ thread.response.status_code = 200

\* C3: ancestors is the chain of parents of the anchor, root first: its last
\* element is the anchor's parent, each element is the parent of the next, and
\* the first element's parent_id is null or the id of no stored message; it is
\* empty exactly when the anchor's parent_id is null or dangling.  On acyclic
\* parent pointers the walk makes fewer hops than there are messages.
C3_AncestorsRootFirst ==
    /\ ThreadAnswered =>
        LET anc == thread.response.ancestors
            ids == {r.msg_id : r \in ThreadRowSet}
            n == Len(anc)
            anchor == thread.response.anchor
        IN /\ \A i \in 1..n : anc[i] \in ThreadRowSet
           /\ n = 0 <=> (~Truthy(anchor.parent_id) \/ anchor.parent_id \notin ids)
           /\ n > 0 => /\ anc[n].msg_id = anchor.parent_id
                       /\ ~Truthy(anc[1].parent_id) \/ anc[1].parent_id \notin ids
           /\ \A i \in 1..(n - 1) : anc[i].msg_id = anc[i + 1].parent_id
    /\ (thread.status = "walking" /\ Acyclic(ThreadRowSet)) =>
        Len(thread.ancestors) < Cardinality(ThreadRowSet)

\* the chain C -> B -> A answered as [A, B], A's parent dangling
C3_Witness ==
    /\ ThreadAnswered
    /\ Len(thread.response.ancestors) = 2
    /\ thread.response.ancestors[1].parent_id = "Z"
    /\ thread.response.ancestors[2].parent_id = thread.response.ancestors[1].msg_id

\* C4: the ancestor walk takes at most |messages| hops, whatever the parent
\* pointers are.
C4_WalkBounded ==
    thread.status = "walking" => Len(thread.ancestors) <= Cardinality(ThreadRowSet)

\* C5: descendants holds exactly the messages between 1 and depth levels below
\* the anchor; on acyclic parent pointers each of them once.
C5_DescendantsWithinDepth ==
    ThreadAnswered =>
        LET desc == thread.response.descendants
            anchor == thread.response.anchor
            below == {r \in ThreadRowSet :
                        \E k \in 1..thread.request.depth :
                            KthParent(ThreadRowSet, r.msg_id, k) = anchor.msg_id}
        IN /\ {desc[i] : i \in 1..Len(desc)} = below
           /\ Acyclic(ThreadRowSet) => Len(desc) = Cardinality(below)

\* root R, child X, grandchild Y, depth 1: the answer is [X]
C5_Witness ==
    /\ ThreadAnswered
    /\ thread.request.depth = 1
    /\ Len(thread.response.descendants) = 1
    /\ \E y \in ThreadRowSet :
          /\ y.parent_id = thread.response.descendants[1].msg_id
          /\ y.msg_id # thread.response.anchor.msg_id
          /\ y.msg_id # thread.response.descendants[1].msg_id

\* the anchor of the request is a stored message of the requested conversation
AnchorStored ==
    \E r \in messages : r.conv_id = thread.request.conv_id /\ r.msg_id = thread.request.msg_id

\* C13: when the anchor msg_id is not among the messages of the requested
\* conversation, also when the conversation has no message at all, get_thread
\* answers 404 at once: it never starts the walk and its response carries no
\* anchor, ancestors or descendants.
C13_AbsentAnchorNotFound ==
    (thread.status # "idle" /\ ~AnchorStored) =>
        /\ thread.status = "returned"
        /\ thread.response.status_code = 404
        /\ DOMAIN thread.response = {"status_code", "detail"}

\* the conversation holds messages, the anchor is none of them
C13_Witness ==
    /\ thread.status = "returned"
    /\ thread.rows # <<>>
    /\ ~AnchorStored
    /\ thread.response.status_code = 404

\* the place of the message in the rows as they were fetched
FetchPlace(rows, msg_id) == CHOOSE i \in DOMAIN rows : rows[i].msg_id = msg_id

\* the message at place j of the list is below the message at place i
Below(rows, list, i, j) ==
    \E k \in 1..Len(rows) :
        KthParent({rows[n] : n \in DOMAIN rows}, list[j].msg_id, k) = list[i].msg_id

\* C25: descendants is a pre-order traversal.  The parent of every listed
\* message is the anchor or is listed before it.  In a conversation without
\* parent cycles the messages below a listed message follow it without a gap,
\* and of two children of one parent the one with the smaller ts is listed
\* first, or with equal ts the one fetched first.
C25_DescendantsPreOrder ==
    (thread.status = "returned" /\ thread.response.status_code = 200) =>
        LET list == thread.response.descendants
            rows == thread.rows
        IN /\ \A j \in DOMAIN list :
                 \/ list[j].parent_id = thread.response.anchor.msg_id
                 \/ \E i \in 1..(j - 1) : list[i].msg_id = list[j].parent_id
           /\ Acyclic({rows[n] : n \in DOMAIN rows}) =>
                 /\ \A i, j, k \in DOMAIN list :
                       (i < j /\ j < k /\ Below(rows, list, i, k)) => Below(rows, list, i, j)
                 /\ \A i, j \in DOMAIN list :
                       (i < j /\ list[i].parent_id = list[j].parent_id) =>
                           \/ TsLess(list[i].ts, list[j].ts)
                           \/ /\ list[i].ts = list[j].ts
                              /\ FetchPlace(rows, list[i].msg_id)
                                    < FetchPlace(rows, list[j].msg_id)

\* two children of the anchor with the same ts, the child of the first of them
\* listed between them
C25_Witness ==
    /\ thread.status = "returned"
    /\ thread.response.status_code = 200
    /\ Acyclic({thread.rows[n] : n \in DOMAIN thread.rows})
    /\ Len(thread.response.descendants) = 3
    /\ thread.response.descendants[1].parent_id = thread.response.anchor.msg_id
    /\ thread.response.descendants[3].parent_id = thread.response.anchor.msg_id
    /\ thread.response.descendants[2].parent_id = thread.response.descendants[1].msg_id
    /\ thread.response.descendants[1].ts = thread.response.descendants[3].ts

(***************************************************************************)
(* Normalizer: properties                                                  *)
(***************************************************************************)

\* the text of the raw message before any redaction: content, else text, else ""
PreRedactionText(msg) ==
    LET value == DictGet(msg, "content", DictGet(msg, "text", None))
    IN IF value.k = "str" THEN value.v ELSE <<>>

\* C7: in both normalizers the hash is the SHA-256 digest of the lower-cased,
\* trimmed text as extracted before redaction, so it depends on nothing but
\* that text: not on enable_pii, role, timestamp or id.  Stated of the messages
\* whose content is a str, None or absent.
C7_HashOfPreRedactionText ==
    (norm.status = "returned" /\ norm.msg.content.k # "parts") =>
        norm.result.hash = Sha256(StrStrip(StrLower(PreRedactionText(norm.msg))))

\* the same, of the api/services normalizer alone
C7_ApiHashOfPreRedactionText ==
    (norm.status = "returned" /\ norm.impl = "api" /\ norm.msg.content.k # "parts") =>
        norm.result.hash = Sha256(StrStrip(StrLower(PreRedactionText(norm.msg))))

\* the key carries a value: it is present and not None
Given(msg, key) == msg[key] # Absent /\ msg[key] # None

\* C14: normalize_message yields no null field on degraded input: whichever of
\* id, role, content, text, create_time, timestamp and source are absent or
\* None, msg_id (the source id, else the first 8 hex characters of the hash),
\* role (default "user"), ts, text (default "") and meta.source (default
\* "chatgpt_export") are not None.
C14_NoNullFields ==
    norm.status = "returned" =>
        /\ norm.result.msg_id # None
        /\ norm.result.role # None
        /\ norm.result.ts # None
        /\ norm.result.text # None
        /\ norm.result.meta.source # None
        /\ ~Given(norm.msg, "id") => norm.result.msg_id = Hex8(norm.result.hash)
        /\ (~Given(norm.msg, "role") /\ ~Given(norm.msg, "author_role"))
              => norm.result.role = Name("user")
        /\ ~Given(norm.msg, "source") => norm.result.meta.source = Name("chatgpt_export")

\* role as the claim resolves it: the top-level role, else author.role, else "user"
ResolvedRole(msg) ==
    IF Given(msg, "role") THEN msg.role
    ELSE IF Given(msg, "author_role") THEN msg.author_role
    ELSE Name("user")

\* C15: in both normalizers role is the source's top-level role if present,
\* otherwise the nested author.role, otherwise "user".  Stated of the messages
\* whose top-level role is absent or set (a role of None is the case of C14).
C15_RoleResolution ==
    (norm.status = "returned" /\ norm.msg.role # None) =>
        norm.result.role = ResolvedRole(norm.msg)

\* text as the claim extracts it: the newline-join of the non-empty string
\* parts of content, else content, else text, else ""
ExtractedText(msg) ==
    IF msg.content.k = "parts"
    THEN Join(<<"\n">>,
              [k \in DOMAIN SelectSeq(msg.content.v,
                                      LAMBDA part : part.k = "str" /\ part.v # <<>>) |->
                  SelectSeq(msg.content.v, LAMBDA part : part.k = "str" /\ part.v # <<>>)[k].v])
    ELSE IF msg.content.k = "str" THEN msg.content.v
    ELSE IF msg.content = Absent /\ msg.text.k = "str" THEN msg.text.v
    ELSE <<>>

\* C16: in both normalizers the text is extracted by precedence (content.parts,
\* content, text, "") and the redactor is applied to the extracted text; with
\* enable_pii off the extracted text is stored as it is.
C16_TextPrecedence ==
    norm.status = "returned" =>
        norm.result.text = Str(IF norm.enable_pii THEN RedactAll(ExtractedText(norm.msg))
                               ELSE ExtractedText(norm.msg))

\* C17: redaction is idempotent: redacting the stored text of a message once
\* more, with the redactor that produced it, leaves it as it is.
C17_RedactionIdempotent ==
    (norm.status = "returned" /\ norm.enable_pii) =>
        norm.result.text.v = IF norm.impl = "api" THEN RedactText(norm.result.text, TRUE)
                             ELSE ImportRedactText(norm.result.text.v)

\* C24: redact_text with enable_pii=False returns the string it was given,
\* character for character, and for None it returns the empty string whether
\* enable_pii is on or off.
C24_DisabledRedactionIsIdentity ==
    norm.status = "redacted" =>
        /\ (~norm.enable_pii /\ norm.text # None) => norm.result = norm.text.v
        /\ norm.text = None => norm.result = <<>>

\* redaction is off and the text is one that redaction would have changed
C24_Witness ==
    /\ norm.status = "redacted"
    /\ ~norm.enable_pii
    /\ norm.text # None
    /\ RedactAll(norm.text.v) # norm.text.v
    /\ norm.result = norm.text.v

(***************************************************************************)
(* Ingestion: properties                                                   *)
(***************************************************************************)

\* the tuples a request hands to the INSERT, over all its conversations
CandidateRows(path, archive, now) ==
    IF archive.k # "zip" THEN {}
    ELSE UNION {IF archive.conversations[c].id = Absent THEN {}
                ELSE LET conv_data == archive.conversations[c]
                         rows == IF path = "api"
                                 THEN ApiRows(conv_data.mapping, conv_data.id.v, "default", now)
                                 ELSE ImportRows(conv_data.mapping, conv_data.id.v, "default",
                                                 FallbackTs(conv_data), now)
                     IN {rows[k] : k \in DOMAIN rows}
                : c \in DOMAIN archive.conversations}

\* after a request that succeeded, the same export on the same path, at any
\* clock reading, succeeds again and leaves the messages table as it is
ReingestIsNoop ==
    (ingest.status = "returned" /\ ingest.response.status_code = 200) =>
        \A now \in Clock :
            LET again == IngestOutcome(ingest.path, ingest.archive, messages,
                                       conversations, "default", now)
            IN again.response.status_code = 200 /\ again.messages = messages

ImportedTitle(archive, conv_id) ==
    LET at == {i \in DOMAIN archive.conversations :
                  archive.conversations[i].id = Name(conv_id)}
        last == CHOOSE i \in at : \A j \in at : j <= i
    IN DictGet(archive.conversations[last], "title", Name("Untitled")).v

\* the conv_ids an export names
ImportedConvIds(archive) ==
    IF archive.k # "zip" THEN {}
    ELSE {archive.conversations[i].id.v :
             i \in {j \in DOMAIN archive.conversations : archive.conversations[j].id # Absent}}

\* the request that returns in this step succeeded
IngestSucceeds ==
    ingest.status = "idle" /\ ingest'.status = "returned" /\ ingest'.response.status_code = 200

\* C18: over any sequence of API and importer ingestions no stored
\* conversation is ever removed, and after a successful ingestion every
\* conversation the export names is stored under the title the export gives
\* it, also when it was stored before under another title.
C18_TitleUpdatedNeverDeleted ==
    [][/\ \A c \in conversations : \E d \in conversations' : d.conv_id = c.conv_id
       /\ IngestSucceeds =>
             \A conv_id \in ImportedConvIds(ingest'.archive) :
                 \E d \in conversations' :
                     /\ d.conv_id = conv_id
                     /\ d.title = ImportedTitle(ingest'.archive, conv_id)]_vars

\* the same, of the API endpoint alone
C18_ApiTitleUpdatedNeverDeleted ==
    [][/\ \A c \in conversations : \E d \in conversations' : d.conv_id = c.conv_id
       /\ (IngestSucceeds /\ ingest'.path = "api") =>
             \A conv_id \in ImportedConvIds(ingest'.archive) :
                 \E d \in conversations' :
                     /\ d.conv_id = conv_id
                     /\ d.title = ImportedTitle(ingest'.archive, conv_id)]_vars

\* the API request that returns in this step
ApiRequestReturns ==
    ingest.status = "idle" /\ ingest'.status = "returned" /\ ingest'.path = "api"

\* the conversations of the export before the first one without an id: the ones
\* the loop has written when it raises
WrittenBeforeError(archive) ==
    {i \in DOMAIN archive.conversations :
        \A j \in 1..i : archive.conversations[j].id # Absent}

\* the tables hold what the request wrote for conversation conv_data
HoldsWrites(conv_data, message_table, conversation_table) ==
    /\ \E c \in conversation_table : c.conv_id = conv_data.id.v
    /\ WithMessage(conv_data.mapping) # <<>> =>
          \E m \in message_table : m.conv_id = conv_data.id.v

\* C29: an API ingestion that answers with an error (400 invalid archive, 404
\* missing file, 500 a conversation without id in the middle of the export)
\* leaves the conversations and messages stores exactly as they were before
\* the request, and a request that changes a store answers 200 and has then
\* stored every conversation of its export.
C29_IngestAllOrNothing ==
    [][ApiRequestReturns =>
          /\ ingest'.response.status_code # 200 =>
                messages' = messages /\ conversations' = conversations
          /\ ingest'.response.status_code = 200 =>
                \A i \in DOMAIN ingest'.archive.conversations :
                    HoldsWrites(ingest'.archive.conversations[i], messages', conversations')]_vars

\* an API request raised on a conversation without id after it had written an
\* earlier conversation of the same export with a message, and neither table
\* holds anything of that conversation
C29_Witness ==
    /\ ingest.status = "returned" /\ ingest.path = "api"
    /\ ingest.response.status_code = 500
    /\ \E i \in WrittenBeforeError(ingest.archive) :
          LET conv_data == ingest.archive.conversations[i]
          IN /\ WithMessage(conv_data.mapping) # <<>>
             /\ ~\E c \in conversations : c.conv_id = conv_data.id.v
             /\ ~\E m \in messages : m.conv_id = conv_data.id.v

(***************************************************************************)
(* Topic extraction: properties                                            *)
(***************************************************************************)

\* the lower-cased words of a text, one entry per place the word stands at
TokenInstances(text) == IF text = None THEN <<>> ELSE FindAllFrom(text.v, 1)

\* the places of the label in a message
LabelPlaces(message, label) ==
    {k \in DOMAIN TokenInstances(message.text) : TokenInstances(message.text)[k] = label}

\* the positions of the messages that contain the label
MessagesWith(msgs, label) == {i \in DOMAIN msgs : LabelPlaces(msgs[i], label) # {}}

\* the number of places the label stands at over all messages
InstanceCount(msgs, label) ==
    Cardinality({<<i, k>> \in (DOMAIN msgs) \X (1..12) : k \in LabelPlaces(msgs[i], label)})

TopicsReturned == topics.status \in {"returned", "repeated"}

TopicsAnswered == topics.status = "returned" /\ topics.result.k = "list"

\* C8: the occurrences of every returned bundle is the number of input messages
\* that contain the label as a token, however often the label stands in one message.
C8_OccurrencesPerMessage ==
    TopicsAnswered =>
        \A b \in DOMAIN topics.result.v :
            topics.result.v[b].occurrences
                = Cardinality(MessagesWith(topics.messages, topics.result.v[b].label))

\* a returned label stands twice in one of the messages
C8_Witness ==
    /\ TopicsAnswered
    /\ \E b \in DOMAIN topics.result.v :
          /\ \E i \in DOMAIN topics.messages :
                Cardinality(LabelPlaces(topics.messages[i], topics.result.v[b].label)) >= 2
          /\ topics.result.v[b].occurrences
                < InstanceCount(topics.messages, topics.result.v[b].label)

\* for every token, the number of messages that contain it
OccurrencesIn(msgs) ==
    [token \in TopicVocabulary |-> Cardinality(MessagesWith(msgs, token))]

\* the ts of the first message, in the order supplied, that contains the label
FirstSeenOf(msgs, label) ==
    msgs[CHOOSE i \in MessagesWith(msgs, label) :
            \A j \in MessagesWith(msgs, label) : i <= j].ts

\* for every token some message contains, its first-seen ts as the sort reads it
FirstKeyIn(msgs) ==
    [token \in TopicVocabulary |->
        IF MessagesWith(msgs, token) = {} THEN 0 ELSE TsKey(FirstSeenOf(msgs, token))]

\* the tokens that reach min_occurrences messages
Survivors(msgs, min_occurrences) ==
    {token \in TopicVocabulary : OccurrencesIn(msgs)[token] >= min_occurrences}

\* r is the top `limit` of the tokens in survivors, given every token's number of
\* messages occ and first-seen key first
TopLimit(r, survivors, occ, first, limit, min_occurrences) ==
    /\ Len(r) <= limit
    /\ Cardinality({r[k].label : k \in DOMAIN r}) = Len(r)
    /\ \A k \in DOMAIN r : r[k].label \in survivors /\ r[k].occurrences >= min_occurrences
    /\ \A j, k \in DOMAIN r :
          j < k =>
             \/ r[j].occurrences > r[k].occurrences
             \/ /\ r[j].occurrences = r[k].occurrences
                /\ TsKey(r[j].first_seen_ts) <= TsKey(r[k].first_seen_ts)
    /\ \A token \in survivors \ {r[k].label : k \in DOMAIN r} :
          /\ Len(r) = limit
          /\ \A k \in DOMAIN r :
                \/ occ[r[k].label] > occ[token]
                \/ occ[r[k].label] = occ[token] /\ first[r[k].label] <= first[token]

\* C9: the result is the top `limit` of the surviving tokens: at most limit
\* bundles, one per label, each with occurrences >= min_occurrences; ordered by
\* occurrences descending and, on equal occurrences, by first_seen_ts ascending
\* with a missing first_seen_ts first; a surviving token is left out only when
\* limit bundles are returned and each of them ranks at least as high.
C9_TopLimitOfSurvivors ==
    TopicsAnswered =>
        TopLimit(topics.result.v, Survivors(topics.messages, topics.min_occurrences),
                 OccurrencesIn(topics.messages), FirstKeyIn(topics.messages),
                 topics.limit, topics.min_occurrences)

\* more tokens survive than limit, and the two bundles returned tie on
\* occurrences, the first of them with no first_seen_ts
C9_Witness ==
    /\ TopicsAnswered
    /\ Cardinality(Survivors(topics.messages, topics.min_occurrences)) > topics.limit
    /\ Len(topics.result.v) = 2
    /\ topics.result.v[1].occurrences = topics.result.v[2].occurrences
    /\ topics.result.v[1].first_seen_ts = None
    /\ topics.result.v[2].first_seen_ts # None

\* the key (ts, msg_id) of a message
MessageKey(message) == <<TsKey(message.ts), MsgRank(message.msg_id)>>

\* anchors is a cut of the messages at positions idx: it holds `size` of them,
\* in ascending key order, and no message left out has a smaller key
SmallestKeys(anchors, msgs, idx, size) ==
    /\ Len(anchors) = size
    /\ \A j, k \in DOMAIN anchors :
          j < k => KeyLeq(SampleKey(anchors[j]), SampleKey(anchors[k]))
    /\ \E f \in [DOMAIN anchors -> idx] :
          /\ \A j, k \in DOMAIN anchors : f[j] = f[k] => j = k
          /\ \A j \in DOMAIN anchors : anchors[j] = TopicSample(msgs[f[j]])
          /\ \A i \in idx \ {f[j] : j \in DOMAIN anchors} :
                \A j \in DOMAIN anchors : KeyLeq(SampleKey(anchors[j]), MessageKey(msgs[i]))

\* C10: the anchors of every returned bundle are at most sample_limit samples in
\* ascending (ts, msg_id) order, and they are the samples of the sample_limit
\* smallest keys among the messages that contain the label, in whatever order
\* the messages were supplied.
C10_AnchorsSmallestKeys ==
    TopicsAnswered =>
        \A b \in DOMAIN topics.result.v :
            LET idx == MessagesWith(topics.messages, topics.result.v[b].label)
            IN /\ Len(topics.result.v[b].anchors) <= topics.sample_limit
               /\ SmallestKeys(topics.result.v[b].anchors, topics.messages, idx,
                               IF Cardinality(idx) < topics.sample_limit
                               THEN Cardinality(idx) ELSE topics.sample_limit)

\* more messages contain a returned label than sample_limit, and the one with
\* the smallest key was supplied last
C10_Witness ==
    /\ TopicsAnswered
    /\ \E b \in DOMAIN topics.result.v :
          LET idx == MessagesWith(topics.messages, topics.result.v[b].label)
              last == Len(topics.messages)
          IN /\ Cardinality(idx) > topics.sample_limit
             /\ last \in idx
             /\ \A i \in idx \ {last} :
                   /\ KeyLeq(MessageKey(topics.messages[last]), MessageKey(topics.messages[i]))
                   /\ MessageKey(topics.messages[last]) # MessageKey(topics.messages[i])
             /\ topics.result.v[b].anchors[1] = TopicSample(topics.messages[last])

\* C11: extract_topics is deterministic: a second invocation on the same
\* messages, limit, min_occurrences and sample_limit returns the same sequence
\* of bundles as the first, also when tokens tie on occurrences and
\* first_seen_ts and limit cuts through the tie.
C11_Deterministic ==
    topics.status = "repeated" => topics.result = topics.first

\* C12: extract_topics raises ValueError exactly when limit, min_occurrences or
\* sample_limit is below 1, for every message list including the empty one,
\* and then returns no bundles.
C12_RejectsOutOfRange ==
    TopicsReturned =>
        /\ (topics.limit < 1 \/ topics.min_occurrences < 1 \/ topics.sample_limit < 1)
              <=> topics.result.k = "ValueError"
        /\ topics.result.k = "ValueError" => topics.result = [k |-> "ValueError"]

\* the empty list with sample_limit, the last bound validated, alone out of range
C12_Witness ==
    /\ TopicsReturned
    /\ topics.messages = <<>>
    /\ topics.limit >= 1 /\ topics.min_occurrences >= 1 /\ topics.sample_limit = 0
    /\ topics.result.k = "ValueError"

\* the messages that contributed no token
TokenlessMessages(msgs) ==
    {i \in DOMAIN msgs : TokenInstances(msgs[i].text) = <<>>
                            \/ \A k \in DOMAIN TokenInstances(msgs[i].text) :
                                  ~KeepToken(TokenInstances(msgs[i].text)[k])}

\* C19: the weight of every returned bundle is occurrences divided by the
\* number of all input messages, those without a surviving token included,
\* so 1 <= occurrences <= total_messages and 0 < weight <= 1.  The weight is
\* kept as the pair <<numerator, denominator>>.
C19_WeightOverAllMessages ==
    TopicsAnswered =>
        \A b \in DOMAIN topics.result.v :
            /\ topics.result.v[b].weight
                  = <<topics.result.v[b].occurrences, Len(topics.messages)>>
            /\ topics.result.v[b].occurrences >= 1
            /\ topics.result.v[b].occurrences <= Len(topics.messages)

\* a bundle is returned for a list in which some message contributed no token
C19_Witness ==
    /\ TopicsAnswered
    /\ Len(topics.result.v) >= 1
    /\ TokenlessMessages(topics.messages) # {}
    /\ topics.result.v[1].occurrences < Len(topics.messages)

\* the messages are supplied in ascending ts order, a missing ts counting as
\* the smallest, as "ts or ''" makes it in the code's sort keys
TsAscending(msgs) ==
    \A i, j \in DOMAIN msgs : i < j => TsKey(msgs[i].ts) <= TsKey(msgs[j].ts)

\* C26: first_seen_ts of a bundle is the ts of the first message, in the order
\* supplied, that contains the label; when the messages are supplied in
\* ascending ts order it is the smallest ts of the messages that contain the
\* label and the ts of the bundle's first anchor.
C26_FirstSeenIsFirstSupplied ==
    TopicsAnswered =>
        \A b \in DOMAIN topics.result.v :
            /\ topics.result.v[b].first_seen_ts
                  = FirstSeenOf(topics.messages, topics.result.v[b].label)
            /\ TsAscending(topics.messages) =>
                  /\ \A i \in MessagesWith(topics.messages, topics.result.v[b].label) :
                        TsKey(topics.result.v[b].first_seen_ts) <= TsKey(topics.messages[i].ts)
                  /\ topics.result.v[b].first_seen_ts = topics.result.v[b].anchors[1].ts

\* messages in ascending ts order, and a returned label that stands in messages
\* of different ts
C26_Witness ==
    /\ TopicsAnswered
    /\ TsAscending(topics.messages)
    /\ \E b \in DOMAIN topics.result.v :
          /\ topics.result.v[b].first_seen_ts # None
          /\ topics.result.v[b].first_seen_ts = topics.result.v[b].anchors[1].ts
          /\ \E i \in MessagesWith(topics.messages, topics.result.v[b].label) :
                topics.messages[i].ts # topics.result.v[b].first_seen_ts

\* the anchor text the claim gives a message text: the stripped text if it has
\* at most 280 characters, else its first 280 characters, right-stripped, and
\* one more character, the ellipsis
BoundedPreview(anchor_text, text) ==
    IF Len(StrStrip(text)) <= TrimLimit THEN anchor_text = StrStrip(text)
    ELSE /\ Len(anchor_text) <= TrimLimit + 1
         /\ Len(anchor_text) = Len(RStrip(SubSeq(StrStrip(text), 1, TrimLimit))) + 1
         /\ SubSeq(anchor_text, 1, Len(anchor_text) - 1)
               = RStrip(SubSeq(StrStrip(text), 1, TrimLimit))

\* C20: every anchor text recorded for extract_topics is the bounded preview of
\* the text of its message: unchanged when the stripped text has at most 280
\* characters, otherwise the first 280 characters, right-stripped, followed by
\* the ellipsis, at most 281 characters in all.
C20_AnchorTextBounded ==
    topics.status = "recorded" =>
        \A a \in DOMAIN topics.list :
            \E m \in LongMessageUniverse :
                /\ m.conv_id = topics.list[a].conv_id
                /\ m.msg_id = topics.list[a].msg_id
                /\ BoundedPreview(topics.list[a].text, m.text.v)

(***************************************************************************)
(* Context packer: properties                                              *)
(***************************************************************************)

\* the formatted lines of a text block: its pieces other than the
\* blank-line separators and the truncation marker
IsLine(piece) == Len(piece) = 6
IncludedLines(text_block) == SelectSeq(text_block, IsLine)

LineCosts(lines, encoding) == [i \in 1..Len(lines) |-> encoding[lines[i]]]

\* the cost of the first n fetched messages
PrefixCost(rows, encoding, n) ==
    SumSeq([i \in 1..n |-> encoding[FormatLine(rows[i])]])

\* C1: build_context_pack never exceeds its budget: token_count <= max_tokens,
\* token_count is the sum of the token lengths of the lines included in
\* text_block, and message_count is the number of those lines.
C1_BudgetRespected ==
    pack.status = "returned" =>
        LET lines == IncludedLines(pack.response.text_block)
        IN /\ pack.response.token_count <= pack.request.max_tokens
           /\ pack.response.token_count = SumSeq(LineCosts(lines, pack.encoding))
           /\ pack.response.message_count = Len(lines)

\* a pack that took two messages and left at least one out
C1_Witness ==
    /\ pack.status = "returned"
    /\ pack.response.message_count >= 2
    /\ pack.response.message_count < Len(pack.messages)

\* the truncation marker is the last piece of the text block
EndsWithMarker(text_block, max_tokens) ==
    text_block # <<>> /\ text_block[Len(text_block)] = TruncationMarker(max_tokens)

\* C21: text_block ends with the truncation marker stating max_tokens if and
\* only if a fetched message was left out; the pieces before it, or all pieces
\* when nothing was left out, are the accepted lines joined by blank lines; when
\* no message was fetched the response is text_block "", token_count 0 and
\* message_count 0.
C21_MarkerIffExcluded ==
    pack.status = "returned" =>
        LET n == pack.response.message_count
            lines == [i \in 1..n |-> FormatLine(pack.messages[i])]
        IN /\ EndsWithMarker(pack.response.text_block, pack.request.max_tokens)
                 <=> n < Len(pack.messages)
           /\ pack.response.text_block
                 = IF n < Len(pack.messages)
                   THEN Append(JoinBlank(lines), TruncationMarker(pack.request.max_tokens))
                   ELSE JoinBlank(lines)
           /\ pack.messages = <<>> =>
                 pack.response = [text_block |-> <<>>, token_count |-> 0, message_count |-> 0]

\* every fetched message fitted, the last of them filling the budget to the
\* last token: no marker
C21_Witness ==
    /\ pack.status = "returned"
    /\ Len(pack.messages) >= 2
    /\ pack.response.message_count = Len(pack.messages)
    /\ pack.response.token_count = pack.request.max_tokens
    /\ ~EndsWithMarker(pack.response.text_block, pack.request.max_tokens)

\* C27: only requested messages are rendered: every message that has a line in
\* text_block has its pair (conv_id, msg_id) among the identifiers of
\* request.message_ids, also when identifiers of two conversations are
\* requested.
C27_OnlyRequestedPairs ==
    pack.status = "returned" =>
        \A i \in 1..pack.response.message_count :
            \E k \in DOMAIN pack.request.message_ids :
                pack.request.message_ids[k] = <<pack.messages[i].conv_id, pack.messages[i].msg_id>>

\* C2: the included messages are exactly the longest prefix of the ordered
\* input whose cumulative line cost stays within max_tokens; nothing after the
\* first message that does not fit is included.
C2_GreedyPrefix ==
    pack.status = "returned" =>
        LET rows == pack.messages
            n == pack.response.message_count
        IN /\ n <= Len(rows)
           /\ IncludedLines(pack.response.text_block) = [i \in 1..n |-> FormatLine(rows[i])]
           /\ PrefixCost(rows, pack.encoding, n) <= pack.request.max_tokens
           /\ n < Len(rows) =>
                 PrefixCost(rows, pack.encoding, n + 1) > pack.request.max_tokens

\* a message was cut off although a later one would still have fitted
C2_Witness ==
    /\ pack.status = "returned"
    /\ pack.response.message_count >= 1
    /\ \E j \in 1..Len(pack.messages) :
          /\ j > pack.response.message_count + 1
          /\ pack.response.token_count + pack.encoding[FormatLine(pack.messages[j])]
                <= pack.request.max_tokens

(***************************************************************************)
(* MCP server: properties                                                  *)
(***************************************************************************)

\* the character of chars at position i, "EOF" outside the text
CharAt(chars, i) == IF i \in DOMAIN chars THEN chars[i] ELSE "EOF"

\* the first position from i on that holds no blank
SkipSpace(chars, i) ==
    CHOOSE j \in i..(Len(chars) + 1) :
        CharAt(chars, j) # " " /\ \A m \in i..(j - 1) : chars[m] = " "

\* the position of the first double quote from i on, 0 when there is none
ClosingQuote(chars, i) ==
    IF \E j \in i..Len(chars) : chars[j] = "\""
    THEN CHOOSE j \in i..Len(chars) :
            chars[j] = "\"" /\ \A m \in i..(j - 1) : chars[m] # "\""
    ELSE 0

JsonError == [k |-> "error"]
JsonObject(items) == [k |-> "object", items |-> items]

\* the members of a JSON object whose keys and values are strings without
\* escapes, read from position i; a repeated key keeps its last value
RECURSIVE JsonMembers(_, _, _)
JsonMembers(chars, i, items) ==
    LET kq == SkipSpace(chars, i)
        ke == ClosingQuote(chars, kq + 1)
        colon == SkipSpace(chars, ke + 1)
        vq == SkipSpace(chars, colon + 1)
        ve == ClosingQuote(chars, vq + 1)
        after == SkipSpace(chars, ve + 1)
    IN IF CharAt(chars, kq) # "\"" \/ ke = 0 \/ CharAt(chars, colon) # ":"
          \/ CharAt(chars, vq) # "\"" \/ ve = 0
       THEN JsonError
       ELSE LET key == Str(SubSeq(chars, kq + 1, ke - 1))
                more == {item \in items : item[1] # key}
                            \cup {<<key, Str(SubSeq(chars, vq + 1, ve - 1))>>}
            IN IF CharAt(chars, after) = "}"
               THEN IF SkipSpace(chars, after + 1) = Len(chars) + 1
                    THEN JsonObject(more) ELSE JsonError
               ELSE IF CharAt(chars, after) = ","
               THEN JsonMembers(chars, after + 1, more)
               ELSE JsonError

\* json.loads of the test, for an object of strings
JsonLoads(chars) ==
    LET open == SkipSpace(chars, 1)
    IN IF CharAt(chars, open) # "{" THEN JsonError
       ELSE IF CharAt(chars, SkipSpace(chars, open + 1)) = "}"
       THEN IF SkipSpace(chars, SkipSpace(chars, open + 1) + 1) = Len(chars) + 1
            THEN JsonObject({}) ELSE JsonError
       ELSE JsonMembers(chars, open + 1, {})

\* search_messages has sent its request
SearchSent ==
    mcp.status = "returned" /\ mcp.call.name = "search_messages" /\ mcp.requests # <<>>

\* C22: the request search_messages sends to /search carries q equal to the
\* query, k equal to the requested count and, when the arguments hold a filters
\* mapping, a parameter filters that is a string of JSON decoding to exactly
\* that mapping.
C22_SearchForwardsFilters ==
    SearchSent =>
        LET params == mcp.requests[1].params
            arguments == mcp.call.arguments
        IN /\ mcp.requests[1].url = <<"/search">>
           /\ params.q = arguments["query"]
           /\ params.k = DictGet(arguments, "k", Num(10))
           /\ arguments["filters"].k = "dict" =>
                /\ "filters" \in DOMAIN params
                /\ params.filters.k = "str"
                /\ JsonLoads(params.filters.v)
                     = JsonObject({arguments["filters"].v[i] :
                                      i \in DOMAIN arguments["filters"].v})

\* C30: call_tool raises nothing.  For every name, arguments and answer of the
\* API it returns a text: "Unknown tool: <name>" for a name that is no tool and
\* the "Invalid arguments supplied" text for arguments that fail validation,
\* both without a request to the API; the fixed texts for an HTTP status error
\* and for a transport error.
C30_AlwaysTextResponse ==
    mcp.status # "called" =>
        /\ mcp.status = "returned"
        /\ mcp.result.k = "text"
        /\ mcp.call.name \notin ToolNames =>
              mcp.result = UnknownTool(mcp.call.name) /\ mcp.requests = <<>>
        /\ (mcp.call.name \in ToolNames /\ mcp.requests = <<>>) <=>
              mcp.result = InvalidArguments
        /\ mcp.requests # <<>> =>
              /\ Len(mcp.requests) = 1
              /\ mcp.call.reply.kind = "status_error" => mcp.result = ApiError
              /\ mcp.call.reply.kind = "transport_error" => mcp.result = ApiUnreachable

\* the API answered 200 with topics that carry anchors, and the tool still
\* returned a text: the one of the last except clause
C30_Witness ==
    /\ mcp.status = "returned"
    /\ mcp.call.name = "topic_map"
    /\ mcp.call.reply.kind = "ok"
    /\ mcp.requests # <<>>
    /\ mcp.result = Unexpected("TypeError")

(***************************************************************************)
(* Search highlighter: properties                                           *)
(***************************************************************************)

\* the matches of the call's pattern in the call's text, left to right
CallMatches ==
    FindIter(highlighter.call.text, NormalisedTerms(highlighter.call.terms), 0)

\* [max(match.start - window, 0), min(match.end + window, len(text)))
WindowOf(match) ==
    [start |-> IF match.start - highlighter.call.window > 0
               THEN match.start - highlighter.call.window ELSE 0,
     stop |-> IF match.end + highlighter.call.window < Len(highlighter.call.text)
              THEN match.end + highlighter.call.window ELSE Len(highlighter.call.text)]

Disjoint(a, b) == a.stop <= b.start \/ b.stop <= a.start

\* accepted is the greedy choice among the matches: a match is in it exactly
\* when fewer than limit matches before it are and its window is disjoint from
\* the window of each of those
GreedyChoice(matches, accepted) ==
    \A i \in DOMAIN matches :
        i \in accepted <=>
            /\ Cardinality({j \in accepted : j < i}) < highlighter.call.limit
            /\ \A j \in accepted : j < i => Disjoint(WindowOf(matches[j]), WindowOf(matches[i]))

\* the k-th smallest member of a set of numbers
KthOf(set, k) == CHOOSE i \in set : Cardinality({j \in set : j < i}) = k - 1

\* a snippet without its emphasis and ellipsis marks
Unmarked(snippet) == SelectSeq(snippet, LAMBDA c : c \notin {"*", Ellipsis})

OneEmbeddingPerPair ==
    \A pair \in EmbedPairs : CopiesIn(pair, embeddings) <= 1

\* the same, for a table that has the unique key
OneEmbeddingPerPairWithKey == workers.unique_key => OneEmbeddingPerPair

\* an execution that found the message missing or already embedded is past
\* its check and has inserted nothing: no row is added by a step of an
\* execution that is not at its commit
InsertsOnlyAfterChecks ==
    [][embeddings' # embeddings =>
          \E e \in Executions :
              /\ workers.tasks[e].pc = "commit"
              /\ MessageStored(workers.tasks[e].pair)
              /\ embeddings' = embeddings (+) SetToBag({workers.tasks[e].pair})]_vars

====
